---- MODULE Spec2Model ----
(***************************************************************************)
(* Product Review Hub: the idempotency middleware, the cache service and   *)
(* the review handlers that use them, over one shared Redis store and one  *)
(* relational database.                                                    *)
(*                                                                         *)
(* Strings that the code builds or parses (cache keys, SCAN patterns, path *)
(* ids) are sequences of one-character strings, so that formatting,        *)
(* parsing and glob matching are computed, not assumed.                    *)
(* Time advances in ticks of one minute; a request is short against the    *)
(* minute, so that a tick passes between requests.                         *)
(*                                                                         *)
(* A behaviour of the server suffers at most one disturbance: one failing  *)
(* idempotency lookup, write-back, database transaction, cache call or     *)
(* publication, at any call it applies to, or one damaged store entry, or  *)
(* the passing of time, minute after minute. The cache service on its own  *)
(* is exercised with every outcome of every call.                          *)
(***************************************************************************)
EXTENDS Integers, Sequences, FiniteSets, TLC

VARIABLES
    redis,      \* the shared key-value store: key -> [val, ttl, age, by]
    reviews,    \* table reviews: id -> [product_id, rating]
    nextID,     \* the next value of the SERIAL column reviews.id
    products,   \* table products: the ids of its rows
    events,     \* the events accepted by the broker, in publication order
    req,        \* one record per HTTP request: position, inputs, locals, reply
    inject,     \* the kind of disturbance that has struck, "none" so far
    svc         \* a direct caller of the cache service: its position

dbVars == <<reviews, nextID, products>>

envVars == <<inject, svc>>

vars == <<redis, reviews, nextID, products, events, req, inject, svc>>

(***************************************************************************)
(* Bounds                                                                  *)
(***************************************************************************)
MaxReqs == 2        \* HTTP requests in one behaviour
MaxInFlight == 2    \* requests being served at the same time

Reqs == 1..MaxReqs

(***************************************************************************)
(* Program constants                                                       *)
(***************************************************************************)
idempotencyTTL == 1
DefaultTTL == 5
defaultReviewLimit == 10
defaultProductLimit == 10
maxReviewLimit == 100
minRating == 1
maxRating == 5

StatusOK == 200
StatusCreated == 201
StatusNoContent == 204
StatusBadRequest == 400
StatusNotFound == 404
StatusConflict == 409
StatusInternalServerError == 500

(***************************************************************************)
(* Generic helpers                                                         *)
(***************************************************************************)
Merge(rec, upd) ==
    [f \in DOMAIN rec |-> IF f \in DOMAIN upd THEN upd[f] ELSE rec[f]]

Restrict(f, S) == [k \in S |-> f[k]]

Max(a, b) == IF a > b THEN a ELSE b

Digits == <<"0", "1", "2", "3", "4", "5", "6", "7", "8", "9">>

DigitVal(c) == (CHOOSE i \in 1..10 : Digits[i] = c) - 1

IsDigit(c) == \E i \in 1..10 : Digits[i] = c

RECURSIVE FormatNat(_)
FormatNat(n) ==
    IF n < 10 THEN <<Digits[n + 1]>>
    ELSE FormatNat(n \div 10) \o <<Digits[(n % 10) + 1]>>

\* fmt's %d and strconv.FormatInt(n, 10)
FormatInt(n) == IF n < 0 THEN <<"-">> \o FormatNat(0 - n) ELSE FormatNat(n)

RECURSIVE ParseNat(_, _)
ParseNat(s, acc) ==
    IF s = <<>> THEN acc ELSE ParseNat(Tail(s), acc * 10 + DigitVal(Head(s)))

\* strconv.ParseInt(id, 10, 64): an optional sign, then one or more digits;
\* the result is (v, err)
parseID(id) ==
    LET body == IF id # <<>> /\ Head(id) \in {"-", "+"} THEN Tail(id) ELSE id
    IN  IF body = <<>> \/ \E i \in 1..Len(body) : ~IsDigit(body[i])
        THEN [err |-> TRUE, v |-> 0]
        ELSE [err |-> FALSE,
              v |-> IF Head(id) = "-" THEN 0 - ParseNat(body, 0)
                    ELSE ParseNat(body, 0)]

\* Redis glob matching for the patterns the code builds: literal characters,
\* "?" (one character) and "*" (any run of characters)
RECURSIVE Match(_, _)
Match(pat, s) ==
    IF pat = <<>> THEN s = <<>>
    ELSE IF Head(pat) = "*"
         THEN Match(Tail(pat), s) \/ (s # <<>> /\ Match(pat, Tail(s)))
         ELSE /\ s # <<>>
              /\ (Head(pat) = "?" \/ Head(pat) = Head(s))
              /\ Match(Tail(pat), Tail(s))

(***************************************************************************)
(* internal/cache/cache.go: keys                                           *)
(***************************************************************************)
reviewsKeyPrefix ==
    <<"r", "e", "v", "i", "e", "w", "s", ":",
      "p", "r", "o", "d", "u", "c", "t", ":">>

ratingKeyPrefix ==
    <<"r", "a", "t", "i", "n", "g", ":",
      "p", "r", "o", "d", "u", "c", "t", ":">>

\* repository/idempotency: const keyPrefix
keyPrefix == <<"i", "d", "e", "m", "p", "o", "t", "e", "n", "c", "y", ":">>

\* A key that puts the three numbers side by side
reviewsKeyNoSeparators(productID, limit, offset) ==
    reviewsKeyPrefix \o FormatInt(productID) \o FormatInt(limit)
        \o FormatInt(offset)

reviewsKey(productID, limit, offset) ==
    reviewsKeyPrefix \o FormatInt(productID)
        \o <<":", "l", "i", "m", "i", "t", ":">> \o FormatInt(limit)
        \o <<":", "o", "f", "f", "s", "e", "t", ":">> \o FormatInt(offset)

\* A pattern without its wildcard
reviewsPatternKeyNoWildcard(productID) ==
    reviewsKeyPrefix \o FormatInt(productID) \o <<":">>

\* A pattern without the colon that ends the product id
reviewsPatternKeyNoSeparator(productID) ==
    reviewsKeyPrefix \o FormatInt(productID) \o <<"*">>

reviewsPatternKey(productID) ==
    reviewsKeyPrefix \o FormatInt(productID) \o <<":", "*">>

ratingKey(productID) == ratingKeyPrefix \o FormatInt(productID)

(***************************************************************************)
(* Go values and their JSON text                                           *)
(*   a slice or a pointer is [isNil, v]; JSON text is [t, v] with          *)
(*   t in {"null", "arr", "num", "obj"}; Garbage is text no decoder takes  *)
(***************************************************************************)
NilSlice == [isNil |-> TRUE, v |-> <<>>]
Slice(items) == [isNil |-> FALSE, v |-> items]
NilPtr == [isNil |-> TRUE, v |-> 0]
Ptr(x) == [isNil |-> FALSE, v |-> x]

JSONNull == [t |-> "null", v |-> 0]
Garbage == [t |-> "garbage", v |-> 0]

\* json.Marshal of a []models.Review: a nil slice encodes as null
MarshalReviews(list) ==
    IF list.isNil THEN JSONNull ELSE [t |-> "arr", v |-> list.v]

\* json.Unmarshal into a []models.Review; err is TRUE when decoding fails
UnmarshalReviews(data) ==
    CASE data.t = "null" -> [err |-> FALSE, val |-> NilSlice]
      [] data.t = "arr"  -> [err |-> FALSE, val |-> Slice(data.v)]
      [] OTHER           -> [err |-> TRUE, val |-> NilSlice]

\* json.Marshal of a *float64: a nil pointer encodes as null
MarshalRating(rating) ==
    IF rating.isNil THEN JSONNull ELSE [t |-> "num", v |-> rating.v]

\* json.Marshal of a CachedResponse
MarshalResponse(resp) == [t |-> "obj", v |-> resp]

\* json.Unmarshal into a CachedResponse (null leaves the zero value)
UnmarshalResponse(data) ==
    CASE data.t = "obj"  -> [err |-> FALSE, val |-> data.v]
      [] data.t = "null" -> [err |-> FALSE,
                             val |-> [status_code |-> 0, headers |-> <<>>,
                                      body |-> <<>>]]
      [] OTHER           -> [err |-> TRUE, val |-> data.v]

(***************************************************************************)
(* The Redis commands the code issues, on a store value s                  *)
(*   an entry is [val, ttl, age, by]: the bytes, the ticks left to live,   *)
(*   the ticks since it was written and the request that wrote it          *)
(***************************************************************************)
RedisHas(s, k) == k \in DOMAIN s

\* A SET that keeps the time to live of the entry it overwrites
RedisSetKeepsTTL(s, k, data, ttl, by) ==
    [kk \in DOMAIN s \cup {k} |->
        IF kk # k THEN s[kk]
        ELSE IF k \in DOMAIN s THEN [s[k] EXCEPT !.val = data, !.by = by]
        ELSE [val |-> data, ttl |-> ttl, age |-> 0, by |-> by]]

RedisSet(s, k, data, ttl, by) ==
    [kk \in DOMAIN s \cup {k} |->
        IF kk = k THEN [val |-> data, ttl |-> ttl, age |-> 0, by |-> by]
        ELSE s[kk]]

RedisDel(s, keys) == Restrict(s, DOMAIN s \ keys)

\* One tick passes: every entry is a tick nearer its expiry and the entries
\* whose time is up are gone
RedisExpire(s) ==
    [k \in {kk \in DOMAIN s : s[kk].ttl > 1} |->
        [s[k] EXCEPT !.ttl = @ - 1, !.age = @ + 1]]

\* One SCAN call. rest is the part of the keyspace the cursor has not covered
\* (the whole keyspace for cursor 0), covered the part this call walks over,
\* extra the keys Redis may report besides (keys written during the
\* iteration, keys reported twice). The next cursor is 0 when nothing is left.
Scan(s, rest, pattern, covered, extra) ==
    [keys |-> {k \in (covered \cup extra) \cap DOMAIN s : Match(pattern, k)},
     rest |-> (rest \ covered) \cap DOMAIN s]

(***************************************************************************)
(* internal/cache/cache.go: Service                                        *)
(*   fault is TRUE when the Redis call of the operation fails              *)
(***************************************************************************)
\* A GetReviews that takes bytes it cannot decode for an empty list
GetReviewsEmptyOnGarbage(s, productID, limit, offset, fault) ==
    LET key == reviewsKey(productID, limit, offset) IN
    IF fault THEN [err |-> TRUE, reviews |-> NilSlice]
    ELSE IF ~RedisHas(s, key) THEN [err |-> FALSE, reviews |-> NilSlice]
    ELSE LET u == UnmarshalReviews(s[key].val) IN
         IF u.err THEN [err |-> FALSE, reviews |-> Slice(<<>>)]
         ELSE [err |-> FALSE, reviews |-> u.val]

\* A GetReviews that builds its key with limit and offset exchanged
GetReviewsSwapsPage(s, productID, limit, offset, fault) ==
    LET key == reviewsKey(productID, offset, limit) IN
    IF fault THEN [err |-> TRUE, reviews |-> NilSlice]
    ELSE IF ~RedisHas(s, key) THEN [err |-> FALSE, reviews |-> NilSlice]
    ELSE LET u == UnmarshalReviews(s[key].val) IN
         IF u.err THEN [err |-> TRUE, reviews |-> NilSlice]
         ELSE [err |-> FALSE, reviews |-> u.val]

\* GetReviews returns (reviews, err); a miss is (nil, nil)
GetReviews(s, productID, limit, offset, fault) ==
    LET key == reviewsKey(productID, limit, offset) IN
    IF fault THEN [err |-> TRUE, reviews |-> NilSlice]
    ELSE IF ~RedisHas(s, key) THEN [err |-> FALSE, reviews |-> NilSlice]
    ELSE LET u == UnmarshalReviews(s[key].val) IN
         IF u.err THEN [err |-> TRUE, reviews |-> NilSlice]
         ELSE [err |-> FALSE, reviews |-> u.val]

\* A SetReviews that leaves an entry already under the key as it is
SetReviewsIfAbsent(s, productID, limit, offset, list, fault, by) ==
    IF fault \/ RedisHas(s, reviewsKey(productID, limit, offset)) THEN s
    ELSE RedisSet(s, reviewsKey(productID, limit, offset),
                  MarshalReviews(list), DefaultTTL, by)

\* SetReviews returns the store after the call
SetReviews(s, productID, limit, offset, list, fault, by) ==
    IF fault THEN s
    ELSE RedisSet(s, reviewsKey(productID, limit, offset),
                  MarshalReviews(list), DefaultTTL, by)

\* A GetRating that reports a stored null as a miss
GetRatingNullIsMiss(s, productID, fault) ==
    LET key == ratingKey(productID) IN
    IF fault THEN [err |-> TRUE, found |-> FALSE, rating |-> NilPtr]
    ELSE IF ~RedisHas(s, key) \/ s[key].val.t = "null"
         THEN [err |-> FALSE, found |-> FALSE, rating |-> NilPtr]
    ELSE IF s[key].val.t = "num"
         THEN [err |-> FALSE, found |-> TRUE, rating |-> Ptr(s[key].val.v)]
    ELSE [err |-> TRUE, found |-> FALSE, rating |-> NilPtr]

\* GetRating returns (rating, found, err)
GetRating(s, productID, fault) ==
    LET key == ratingKey(productID) IN
    IF fault THEN [err |-> TRUE, found |-> FALSE, rating |-> NilPtr]
    ELSE IF ~RedisHas(s, key)
         THEN [err |-> FALSE, found |-> FALSE, rating |-> NilPtr]
    ELSE IF s[key].val.t = "null"
         THEN [err |-> FALSE, found |-> TRUE, rating |-> NilPtr]
    ELSE IF s[key].val.t = "num"
         THEN [err |-> FALSE, found |-> TRUE, rating |-> Ptr(s[key].val.v)]
    ELSE [err |-> TRUE, found |-> FALSE, rating |-> NilPtr]

SetRating(s, productID, rating, fault, by) ==
    IF fault THEN s
    ELSE RedisSet(s, ratingKey(productID), MarshalRating(rating),
                  DefaultTTL, by)

\* An InvalidateRating that leaves a stored null where it is
InvalidateRatingKeepsNull(s, productID, fault) ==
    IF fault \/ (RedisHas(s, ratingKey(productID))
                   /\ s[ratingKey(productID)].val = JSONNull)
    THEN s ELSE RedisDel(s, {ratingKey(productID)})

InvalidateRating(s, productID, fault) ==
    IF fault THEN s ELSE RedisDel(s, {ratingKey(productID)})

(***************************************************************************)
(* deleteByPattern, one Redis call at a time. The loop's position is       *)
(*   [st, rest, keys]: st "scan" before a SCAN, "del" before the DEL of    *)
(*   the batch in keys, "end" when the loop is left; rest is the cursor.   *)
(***************************************************************************)
ScanStart(s) == [st |-> "scan", rest |-> DOMAIN s, keys |-> {}, zero |-> TRUE]

LoopEnd == [st |-> "end", rest |-> {}, keys |-> {}, zero |-> TRUE]

\* A loop that is left after its first batch, whatever the cursor
AfterBatchBreaks(rest) == LoopEnd

\* cursor = nextCursor; if cursor == 0 { break }
AfterBatch(rest) ==
    IF rest = {} THEN LoopEnd
    ELSE [st |-> "scan", rest |-> rest, keys |-> {}, zero |-> FALSE]

\* A loop that issues its DEL for every batch, the empty ones included
deleteByPatternScanDelsEmpty(s, loop, pattern, fault) ==
    IF fault THEN {LoopEnd}
    ELSE LET base == IF loop.zero THEN DOMAIN s ELSE loop.rest \cap DOMAIN s
         IN  { LET sc == Scan(s, base, pattern, covered, extra) IN
               [st |-> "del", rest |-> sc.rest, keys |-> sc.keys,
                zero |-> FALSE]
               : covered \in {c \in SUBSET base : c # {} \/ base = {}},
                 extra \in SUBSET (DOMAIN s \ base) }

\* The loop's positions after its SCAN call
deleteByPatternScan(s, loop, pattern, fault) ==
    IF fault THEN {LoopEnd}
    ELSE LET base == IF loop.zero THEN DOMAIN s ELSE loop.rest \cap DOMAIN s
         IN  { LET sc == Scan(s, base, pattern, covered, extra) IN
               IF sc.keys # {}
               THEN [st |-> "del", rest |-> sc.rest, keys |-> sc.keys,
                     zero |-> FALSE]
               ELSE AfterBatch(sc.rest)
               : covered \in {c \in SUBSET base : c # {} \/ base = {}},
                 extra \in SUBSET (DOMAIN s \ base) }

\* A DEL that deletes nothing
deleteByPatternDelKeepsKeys(s, loop, fault) ==
    IF fault THEN [s |-> s, loop |-> LoopEnd]
    ELSE [s |-> s, loop |-> AfterBatch(loop.rest)]

\* The store and the loop's position after its DEL call
deleteByPatternDel(s, loop, fault) ==
    IF fault THEN [s |-> s, loop |-> LoopEnd]
    ELSE [s |-> RedisDel(s, loop.keys), loop |-> AfterBatch(loop.rest)]

\* A RedisStore.Get that looks under the bare key, without the prefix
StoreGetWithoutPrefix(s, token, fault) ==
    LET key == token IN
    IF fault THEN [err |-> TRUE, found |-> FALSE]
    ELSE IF ~RedisHas(s, key) THEN [err |-> FALSE, found |-> FALSE]
    ELSE LET u == UnmarshalResponse(s[key].val) IN
         IF u.err THEN [err |-> TRUE, found |-> FALSE]
         ELSE [err |-> FALSE, found |-> TRUE, resp |-> u.val,
               by |-> s[key].by]

\* repository/idempotency: RedisStore.Get returns (resp, err); resp nil: none
StoreGet(s, token, fault) ==
    LET key == keyPrefix \o token IN
    IF fault THEN [err |-> TRUE, found |-> FALSE]
    ELSE IF ~RedisHas(s, key) THEN [err |-> FALSE, found |-> FALSE]
    ELSE LET u == UnmarshalResponse(s[key].val) IN
         IF u.err THEN [err |-> TRUE, found |-> FALSE]
         ELSE [err |-> FALSE, found |-> TRUE, resp |-> u.val,
               by |-> s[key].by]

\* repository/idempotency: RedisStore.Set returns the store after the call
StoreSet(s, token, resp, ttl, fault, by) ==
    IF fault THEN s
    ELSE RedisSet(s, keyPrefix \o token, MarshalResponse(resp), ttl, by)

(***************************************************************************)
(* net/http's ResponseWriter and the middleware's responseRecorder         *)
(*   w: [wroteHeader, status, header, sent, body]; header is the live      *)
(*   header map, sent the headers that went out with the status line.      *)
(*   A writer wr is what a handler is given: [recording, statusCode,       *)
(*   body, w], the recorder around w when recording, else w itself.        *)
(***************************************************************************)
EmptyMap == [k \in {} |-> <<>>]

NewResponseWriter ==
    [wroteHeader |-> FALSE, status |-> 0, header |-> EmptyMap,
     sent |-> EmptyMap, body |-> <<>>]

\* http.Header.Set
HeaderSet(w, k, v) ==
    [w EXCEPT !.header = [kk \in DOMAIN @ \cup {k} |->
                             IF kk = k THEN <<v>> ELSE @[kk]]]

\* http.Header.Add
HeaderAdd(w, k, v) ==
    [w EXCEPT !.header = [kk \in DOMAIN @ \cup {k} |->
                             IF kk # k THEN @[kk]
                             ELSE IF k \in DOMAIN @ THEN Append(@[k], v)
                             ELSE <<v>>]]

\* The first WriteHeader sends the status line and the headers; later calls
\* are ignored by net/http
ResponseWriteHeader(w, code) ==
    IF w.wroteHeader THEN w
    ELSE [w EXCEPT !.wroteHeader = TRUE, !.status = code, !.sent = w.header]

BodyAllowed(code) == ~(code \in 100..199 \/ code = 204 \/ code = 304)

\* Write sends 200 first when no status was sent, then the bytes
ResponseWrite(w, b) ==
    LET w1 == ResponseWriteHeader(w, StatusOK) IN
    IF b = <<>> \/ ~BodyAllowed(w1.status) THEN w1
    ELSE [w1 EXCEPT !.body = @ \o b]

PassThrough(w) ==
    [recording |-> FALSE, statusCode |-> 0, body |-> <<>>, w |-> w]

newResponseRecorder(w) ==
    [recording |-> TRUE, statusCode |-> StatusOK, body |-> <<>>, w |-> w]

\* responseRecorder.Header, or the ResponseWriter's own
Header(wr) == wr.w.header

SetHeader(wr, k, v) == [wr EXCEPT !.w = HeaderSet(@, k, v)]

AddHeader(wr, k, v) == [wr EXCEPT !.w = HeaderAdd(@, k, v)]

\* responseRecorder.WriteHeader, or the ResponseWriter's own
WriteHeader(wr, code) ==
    IF wr.recording
    THEN [wr EXCEPT !.statusCode = code, !.w = ResponseWriteHeader(@, code)]
    ELSE [wr EXCEPT !.w = ResponseWriteHeader(@, code)]

\* Write with a recorder that forwards the bytes and buffers none
WriteUnbuffered(wr, b) == [wr EXCEPT !.w = ResponseWrite(@, b)]

\* responseRecorder.Write, or the ResponseWriter's own
Write(wr, b) ==
    IF wr.recording
    THEN [wr EXCEPT !.body = @ \o b, !.w = ResponseWrite(@, b)]
    ELSE [wr EXCEPT !.w = ResponseWrite(@, b)]

\* toCachedResponse without the loop over the recorded headers
toCachedResponseNoHeaders(wr) ==
    [status_code |-> wr.statusCode, headers |-> EmptyMap, body |-> wr.body]

toCachedResponse(wr) ==
    [status_code |-> wr.statusCode,
     headers |-> [k \in {kk \in DOMAIN Header(wr) : Len(Header(wr)[kk]) > 0}
                     |-> Header(wr)[k][1]],
     body |-> wr.body]

\* writeCachedResponse without the loop over the stored headers
writeCachedResponseNoHeaders(w, cached) ==
    ResponseWrite(ResponseWriteHeader(w, cached.status_code), cached.body)

writeCachedResponse(w, cached) ==
    LET w1 == [w EXCEPT !.header =
                  [k \in DOMAIN @ \cup DOMAIN cached.headers |->
                      IF k \in DOMAIN cached.headers
                      THEN <<cached.headers[k]>> ELSE @[k]]]
    IN  ResponseWrite(ResponseWriteHeader(w1, cached.status_code), cached.body)

\* What the client has received when the request is over
Reply(w) == [status |-> w.status, headers |-> w.sent, body |-> w.body]

\* isMutatingMethod with GET among the methods
isMutatingMethodWithGet(method) == method \in {"GET", "POST", "PUT", "DELETE"}

isMutatingMethod(method) == method \in {"POST", "PUT", "DELETE"}

(***************************************************************************)
(* internal/handler: response helpers and validation                       *)
(***************************************************************************)
responseJSON(wr, statusCode, data) ==
    Write(WriteHeader(SetHeader(wr, "Content-Type", "application/json"),
                      statusCode),
          <<data>>)

\* http.Error, which responseJSON calls when Encode has failed
httpError(wr, message, code) ==
    Write(WriteHeader(SetHeader(SetHeader(wr, "Content-Type",
                                          "text/plain; charset=utf-8"),
                                "X-Content-Type-Options", "nosniff"),
                      code),
          <<message>>)

responseError(wr, statusCode, message) ==
    responseJSON(wr, statusCode, [error |-> message])

validateRating(rating) == ~(rating < minRating \/ rating > maxRating)

reviewToResponse(review) ==
    [id |-> FormatInt(review.ID), product_id |-> FormatInt(review.ProductID),
     rating |-> review.Rating]

\* rabbitmq.NewReviewEvent
NewReviewEvent(eventType, reviewID, productID, rating) ==
    [event_type |-> eventType, review_id |-> reviewID,
     product_id |-> productID, rating |-> rating]

(***************************************************************************)
(* The database, as the repositories' queries see it                       *)
(***************************************************************************)
Products == {1}

Exists(id) == id \in products

RECURSIVE DescSeq(_)
DescSeq(S) ==
    IF S = {} THEN <<>>
    ELSE LET m == CHOOSE x \in S : \A y \in S : y <= x
         IN  <<m>> \o DescSeq(S \ {m})

Take(sq, n) == SubSeq(sq, 1, IF n < Len(sq) THEN n ELSE Len(sq))

Drop(sq, n) == SubSeq(sq, (IF n < Len(sq) THEN n ELSE Len(sq)) + 1, Len(sq))

\* ListByProductID: newest first, LIMIT and OFFSET; no rows leave the slice nil
ListByProductID(rv, productID, limit, offset) ==
    LET ids == DescSeq({i \in DOMAIN rv : rv[i].ProductID = productID})
        page == Take(Drop(ids, offset), limit)
    IN  IF page = <<>> THEN NilSlice
        ELSE Slice([i \in 1..Len(page) |->
                       [ID |-> page[i], ProductID |-> productID,
                        Rating |-> rv[page[i]].Rating]])

\* A quotient in lowest terms
RECURSIVE GCD(_, _)
GCD(a, b) == IF b = 0 THEN a ELSE GCD(b, a % b)

Ratio(sum, n) == [num |-> sum \div GCD(sum, n), den |-> n \div GCD(sum, n)]

RECURSIVE SumRatings(_, _)
SumRatings(rv, ids) ==
    IF ids = {} THEN 0
    ELSE LET i == CHOOSE x \in ids : TRUE
         IN  rv[i].Rating + SumRatings(rv, ids \ {i})

\* products GetByID: AVG(r.rating) over the product's reviews, NULL when it
\* has none
AverageRating(rv, productID) ==
    LET ids == {i \in DOMAIN rv : rv[i].ProductID = productID}
    IN  IF ids = {} THEN NilPtr
        ELSE Ptr(Ratio(SumRatings(rv, ids), Cardinality(ids)))

\* productToResponse: the id and the average rating, narrowed to float32
\* (name, description and price are columns no request of the model changes)
productToResponse(id, averageRating) ==
    [id |-> FormatInt(id),
     average_rating |-> IF averageRating.isNil THEN NilPtr
                        ELSE Ptr([float32 |-> averageRating.v])]

(***************************************************************************)
(* Requests                                                                *)
(***************************************************************************)
Ops == {"CreateProductReview", "GetProductReviews",
        "UpdateProductReview", "DeleteProductReview"}

\* The operations that change the table reviews
ReviewMutations ==
    {"CreateProductReview", "UpdateProductReview", "DeleteProductReview"}

\* The route of each operation in the generated router
MethodOf(op) ==
    CASE op = "CreateProductReview" -> "POST"
      [] op = "GetProductReviews"   -> "GET"
      [] op = "UpdateProductReview" -> "PUT"
      [] op = "DeleteProductReview" -> "DELETE"

BadBody == [ok |-> FALSE, rating |-> 0]
RatingInputs == {5, 6}
BodyInputs == {[ok |-> TRUE, rating |-> n] : n \in RatingInputs}
TokenInputs == {<<>>, <<"k">>}
ProductPaths == {<<"1">>}
ReviewPaths == {<<"1">>}
LimitInputs == {NilPtr}
OffsetInputs == {NilPtr}
Disturbances ==
    {"none", "lookup", "writeback", "db", "cache", "publish", "corrupt",
     "time", "disconnect"}

\* The outcomes of a call that can fail: it fails in a behaviour that has
\* suffered no disturbance yet
Faults == IF inject = "none" THEN BOOLEAN ELSE {FALSE}

DBFaults == IF inject = "none" THEN {"none", "commit"} ELSE {"none"}

\* The disturbance that has struck when a call of this kind has returned
Struck(kind, fault) == IF fault /\ inject = "none" THEN kind ELSE inject

NoReview == [ID |-> 0, ProductID |-> 0, Rating |-> 0]

IdleReq ==
    [pc |-> "idle", op |-> "", token |-> <<>>, pid |-> <<>>, rid |-> <<>>,
     body |-> BadBody, limit |-> NilPtr, offset |-> NilPtr,
     wr |-> PassThrough(NewResponseWriter), loop |-> LoopEnd,
     prodID |-> 0, review |-> NoReview, list |-> NilSlice,
     \* history, read by the properties only: the method, how often the
     \* handler was invoked, the outcomes of store.Get and store.Set, the
     \* writer of the record replayed, whether the transaction committed,
     \* the ticks since the request was over (counted up to idempotencyTTL)
     \* and, for each mutating request with the same key that was over when
     \* this one arrived, the ticks it had been over
     method |-> "", invoked |-> 0, lookup |-> "none", hitBy |-> 0,
     setRes |-> "none", committed |-> FALSE, since |-> 0,
     pred |-> [q \in {} |-> 0],
     \* whether the cache held a page of the product when the transaction
     \* committed (kept while the request is in flight), and the outcome of
     \* Publisher.Publish
     had |-> FALSE, published |-> "none",
     \* GetProductById: what GetRating returned and the product's average
     \* rating as the database gave it
     cachedRating |-> NilPtr, ratingCached |-> FALSE, product |-> NilPtr,
     \* GetProducts: the rows of ProductRepo.List and the index of its loop
     productList |-> <<>>, i |-> 0,
     \* whether the request's context is cancelled
     cancelled |-> FALSE]

\* The inputs each operation reads
InputsOf(op) ==
    CASE op = "CreateProductReview" ->
            {[pid |-> p, rid |-> <<>>, body |-> b, limit |-> NilPtr,
              offset |-> NilPtr] : p \in ProductPaths, b \in BodyInputs}
      [] op = "GetProductReviews" ->
            {[pid |-> p, rid |-> <<>>, body |-> BadBody, limit |-> l,
              offset |-> o] :
                p \in ProductPaths, l \in LimitInputs, o \in OffsetInputs}
      [] op = "UpdateProductReview" ->
            {[pid |-> p, rid |-> i, body |-> b, limit |-> NilPtr,
              offset |-> NilPtr] :
                p \in ProductPaths, i \in ReviewPaths, b \in BodyInputs}
      [] op = "DeleteProductReview" ->
            {[pid |-> p, rid |-> i, body |-> BadBody, limit |-> NilPtr,
              offset |-> NilPtr] : p \in ProductPaths, i \in ReviewPaths}

InFlight == {r \in Reqs : req[r].pc \notin {"idle", "done"}}

Done == {r \in Reqs : req[r].pc = "done"}

\* The outcomes of a call that is handed r.Context(): the Redis client and
\* database/sql return the context's error when it is cancelled already;
\* the publisher's channel may or may not look at the context
CallFaults(r) == IF req[r].cancelled THEN {TRUE} ELSE Faults

DBFaultsOf(r) == IF req[r].cancelled THEN {"begin"} ELSE DBFaults

PublishFaults(r) == IF req[r].cancelled THEN BOOLEAN ELSE Faults

\* The check of the status code without its upper limit
AfterHandlerNoUpperLimit(rq) ==
    IF rq.wr.recording /\ rq.wr.statusCode >= 200
    THEN "writeback" ELSE "done"

\* No check of the status code: every recorded response is stored
AfterHandlerAlways(rq) ==
    IF rq.wr.recording THEN "writeback" ELSE "done"

\* Where a request goes when its handler has returned: to the write-back when
\* the recorder holds a 2xx status, else the request is over
AfterHandler(rq) ==
    IF rq.wr.recording /\ rq.wr.statusCode >= 200 /\ rq.wr.statusCode < 300
    THEN "writeback" ELSE "done"

\* A request that is over keeps its key, its reply and its history
Finished(rq) ==
    Merge(IdleReq,
          [pc |-> "done", op |-> rq.op, token |-> rq.token, wr |-> rq.wr,
           limit |-> rq.limit, offset |-> rq.offset,
           invoked |-> rq.invoked, lookup |-> rq.lookup, hitBy |-> rq.hitBy,
           setRes |-> rq.setRes, pred |-> rq.pred,
           committed |-> rq.committed, method |-> rq.method,
           published |-> rq.published, cancelled |-> rq.cancelled])

\* The handler of request rq has written its response into writer wr
Returned(rq, wr) ==
    LET rq1 == Merge(rq, [wr |-> wr, loop |-> LoopEnd, list |-> NilSlice,
                          prodID |-> 0, review |-> NoReview,
                          had |-> FALSE])
    IN  IF AfterHandler(rq1) = "done" THEN Finished(rq1)
        ELSE [rq1 EXCEPT !.pc = "writeback"]

(***************************************************************************)
(* internal/handler: the database transaction of each mutating handler.    *)
(*   The result is [ok, status, message, reviews, nextID, prodID, review]: *)
(*   ok means the transaction committed; otherwise status and message are  *)
(*   the error response and the tables are as before.                      *)
(***************************************************************************)
CommitFailed == "Failed to commit transaction"

TxFail(status, message, rv, nid) ==
    [ok |-> FALSE, status |-> status, message |-> message, reviews |-> rv,
     nextID |-> nid, prodID |-> 0, review |-> NoReview]

TxOk(rv, nid, prodID, review) ==
    [ok |-> TRUE, status |-> 0, message |-> "", reviews |-> rv,
     nextID |-> nid, prodID |-> prodID, review |-> review]

CreateProductReviewTx(rq, rv, nid, dbFault) ==
    LET prodID == parseID(rq.pid)
        review == [ID |-> nid, ProductID |-> prodID.v,
                   Rating |-> rq.body.rating]
    IN
    IF prodID.err
    THEN TxFail(StatusBadRequest, "Invalid product ID", rv, nid)
    ELSE IF ~rq.body.ok
    THEN TxFail(StatusBadRequest, "Invalid request body", rv, nid)
    ELSE IF ~validateRating(rq.body.rating)
    THEN TxFail(StatusBadRequest,
                "validation error: rating - rating must be between 1 and 5",
                rv, nid)
    ELSE IF dbFault = "begin"
    THEN TxFail(StatusInternalServerError, "Failed to begin transaction",
                rv, nid)
    ELSE IF dbFault = "query"
    THEN TxFail(StatusInternalServerError,
                "Failed to check product existence", rv, nid)
    ELSE IF ~Exists(prodID.v)
    THEN TxFail(StatusNotFound, "Product not found", rv, nid)
    ELSE IF dbFault = "commit"
    \* the row is rolled back, the sequence value it drew is not given back
    THEN TxFail(StatusInternalServerError, CommitFailed,
                rv, nid + 1)
    ELSE TxOk([i \in DOMAIN rv \cup {nid} |->
                  IF i = nid
                  THEN [ProductID |-> prodID.v, Rating |-> rq.body.rating]
                  ELSE rv[i]],
              nid + 1, prodID.v, review)

UpdateProductReviewTx(rq, rv, nid, dbFault) ==
    LET prodID == parseID(rq.pid)
        revID == parseID(rq.rid)
    IN
    IF prodID.err
    THEN TxFail(StatusBadRequest, "Invalid product ID", rv, nid)
    ELSE IF revID.err
    THEN TxFail(StatusBadRequest, "Invalid review ID", rv, nid)
    ELSE IF ~rq.body.ok
    THEN TxFail(StatusBadRequest, "Invalid request body", rv, nid)
    ELSE IF ~validateRating(rq.body.rating)
    THEN TxFail(StatusBadRequest,
                "validation error: rating - rating must be between 1 and 5",
                rv, nid)
    ELSE IF dbFault = "begin"
    THEN TxFail(StatusInternalServerError, "Failed to begin transaction",
                rv, nid)
    ELSE IF dbFault = "query"
    THEN TxFail(StatusInternalServerError, "Failed to update review", rv, nid)
    ELSE IF ~(revID.v \in DOMAIN rv /\ rv[revID.v].ProductID = prodID.v)
    THEN TxFail(StatusNotFound, "Review not found", rv, nid)
    ELSE IF dbFault = "commit"
    THEN TxFail(StatusInternalServerError, CommitFailed,
                rv, nid)
    ELSE TxOk([rv EXCEPT ![revID.v].Rating = rq.body.rating], nid, prodID.v,
              [ID |-> revID.v, ProductID |-> prodID.v,
               Rating |-> rq.body.rating])

DeleteProductReviewTx(rq, rv, nid, dbFault) ==
    LET prodID == parseID(rq.pid)
        revID == parseID(rq.rid)
    IN
    IF prodID.err
    THEN TxFail(StatusBadRequest, "Invalid product ID", rv, nid)
    ELSE IF revID.err
    THEN TxFail(StatusBadRequest, "Invalid review ID", rv, nid)
    ELSE IF dbFault = "begin"
    THEN TxFail(StatusInternalServerError, "Failed to begin transaction",
                rv, nid)
    ELSE IF dbFault = "query"
    THEN TxFail(StatusInternalServerError, "Failed to delete review", rv, nid)
    ELSE IF ~(revID.v \in DOMAIN rv /\ rv[revID.v].ProductID = prodID.v)
    THEN TxFail(StatusNotFound, "Review not found", rv, nid)
    ELSE IF dbFault = "commit"
    THEN TxFail(StatusInternalServerError, CommitFailed,
                rv, nid)
    ELSE TxOk(Restrict(rv, DOMAIN rv \ {revID.v}), nid, prodID.v,
              [ID |-> revID.v, ProductID |-> prodID.v, Rating |-> 0])

MutationTx(rq, rv, nid, dbFault) ==
    CASE rq.op = "CreateProductReview" ->
            CreateProductReviewTx(rq, rv, nid, dbFault)
      [] rq.op = "UpdateProductReview" ->
            UpdateProductReviewTx(rq, rv, nid, dbFault)
      [] rq.op = "DeleteProductReview" ->
            DeleteProductReviewTx(rq, rv, nid, dbFault)

\* The event each mutating handler publishes after its commit
EventOf(rq) ==
    CASE rq.op = "CreateProductReview" ->
            NewReviewEvent("review.created", FormatInt(rq.review.ID),
                           FormatInt(rq.review.ProductID), rq.review.Rating)
      [] rq.op = "UpdateProductReview" ->
            NewReviewEvent("review.updated", FormatInt(rq.review.ID),
                           FormatInt(rq.review.ProductID), rq.review.Rating)
      [] rq.op = "DeleteProductReview" ->
            NewReviewEvent("review.deleted", rq.rid, rq.pid, 0)

\* The success response each mutating handler writes last
SuccessResponse(rq) ==
    CASE rq.op = "CreateProductReview" ->
            responseJSON(rq.wr, StatusCreated, reviewToResponse(rq.review))
      [] rq.op = "UpdateProductReview" ->
            responseJSON(rq.wr, StatusOK, reviewToResponse(rq.review))
      [] rq.op = "DeleteProductReview" ->
            WriteHeader(rq.wr, StatusNoContent)

\* GetProductReviews: pagination defaults and clamping
\* A limit that is not capped at maxReviewLimit
NormalLimitNoCap(limit) ==
    IF limit.isNil THEN defaultReviewLimit
    ELSE IF limit.v < 1 THEN 1
    ELSE limit.v

NormalLimit(limit) ==
    IF limit.isNil THEN defaultReviewLimit
    ELSE IF limit.v < 1 THEN 1
    ELSE IF limit.v > maxReviewLimit THEN maxReviewLimit
    ELSE limit.v

NormalOffset(offset) ==
    IF offset.isNil THEN 0 ELSE IF offset.v < 0 THEN 0 ELSE offset.v

ReviewsResponse(list) == [i \in 1..Len(list.v) |-> reviewToResponse(list.v[i])]

(***************************************************************************)
(* Initial state: an empty store, an empty reviews table, no request yet   *)
(***************************************************************************)
\* The caller of the cache service between two calls
SvcIdle ==
    [pc |-> "idle", productID |-> 0, loop |-> LoopEnd, failed |-> FALSE,
     scans |-> 0,
     \* the call that has just returned, the rating it was given, and the
     \* products whose rating entry the last minute has expired
     op |-> "none", rating |-> NilPtr, expired |-> {},
     \* the store concurrent invalidations started on
     start |-> [k \in {} |-> 0],
     \* SetReviews: the page and the list it was given and the key it wrote
     page |-> [limit |-> 0, offset |-> 0], list |-> NilSlice, key |-> <<>>,
     \* the last SetReviews and SetRating that no invalidation followed: the
     \* value written and the minutes since
     wroteReviews |-> [set |-> FALSE, at |-> 0, list |-> NilSlice],
     wroteRating |-> [set |-> FALSE, at |-> 0, rating |-> NilPtr],
     \* the database the handlers built without a cache have left
     bare |-> [reviews |-> <<>>, nextID |-> 1, products |-> Products]]

Init ==
    /\ svc = SvcIdle
    /\ redis = [k \in {} |-> 0]
    /\ reviews = [i \in {} |-> 0]
    /\ nextID = 1
    /\ products = Products
    /\ events = <<>>
    /\ req = [r \in Reqs |-> IdleReq]
    /\ inject = "none"

(***************************************************************************)
(* middleware.Idempotency                                                  *)
(***************************************************************************)
\* The mutating requests with this key that are over when a request that
\* the middleware looks up arrives
Earlier(token, bypass) ==
    IF bypass THEN {}
    ELSE {q \in Done : req[q].token = token
                         /\ isMutatingMethod(req[q].method)}

\* A request arrives. The middleware hands a request that is not mutating,
\* or carries no key, to the handler with the original ResponseWriter.
Arrive(r) ==
    /\ req[r].pc = "idle"
    /\ \A q \in Reqs : q < r => req[q].pc # "idle"
    /\ Cardinality(InFlight) < MaxInFlight
    /\ \E op \in Ops, token \in TokenInputs :
         \E in \in InputsOf(op) :
            LET bypass == ~isMutatingMethod(MethodOf(op)) \/ token = <<>>
            IN  req' = [req EXCEPT ![r] =
                    Merge(IdleReq,
                          [pc |-> IF bypass THEN "handler" ELSE "lookup",
                           op |-> op, token |-> token, pid |-> in.pid,
                           rid |-> in.rid, body |-> in.body,
                           limit |-> in.limit, offset |-> in.offset,
                           method |-> MethodOf(op),
                           invoked |-> IF bypass THEN 1 ELSE 0,
                           pred |-> [q \in Earlier(token, bypass) |->
                                        req[q].since]])]
    /\ UNCHANGED <<redis, dbVars, events, envVars>>

\* A lookup that fails closed: the error of store.Get is answered with 500
LookupFailClosed(r) ==
    /\ req[r].pc = "lookup"
    /\ \E fault \in CallFaults(r) :
         LET got == StoreGet(redis, req[r].token, fault) IN
         /\ inject' = Struck("lookup", fault)
         /\ IF got.err
            THEN req' = [req EXCEPT ![r] =
                    Finished(Merge(@,
                        [lookup |-> "err",
                         wr |-> responseError(@.wr, StatusInternalServerError,
                                              "Internal Server Error")]))]
            ELSE IF got.found
            THEN req' = [req EXCEPT ![r] =
                    Finished(Merge(@,
                        [lookup |-> "hit", hitBy |-> got.by,
                         wr |-> PassThrough(
                                   writeCachedResponse(@.wr.w, got.resp))]))]
            ELSE req' = [req EXCEPT ![r] =
                    Merge(@, [pc |-> "handler", lookup |-> "miss",
                              invoked |-> @.invoked + 1,
                              wr |-> newResponseRecorder(@.wr.w)])]
    /\ UNCHANGED <<redis, dbVars, events, svc>>

\* A lookup that refuses a key another request is working on: the miss is
\* answered with an error and the handler is not invoked
LookupRefusesBusyKey(r) ==
    /\ req[r].pc = "lookup"
    /\ \E fault \in CallFaults(r) :
         LET got == StoreGet(redis, req[r].token, fault)
             busy == \E q \in InFlight \ {r} :
                        req[q].token = req[r].token /\ req[q].pc # "lookup"
         IN
         /\ inject' = Struck("lookup", fault)
         /\ IF ~got.err /\ got.found
            THEN req' = [req EXCEPT ![r] =
                    Finished(Merge(@,
                        [lookup |-> "hit", hitBy |-> got.by,
                         wr |-> PassThrough(
                                   writeCachedResponse(@.wr.w, got.resp))]))]
            ELSE IF ~got.err /\ busy
            THEN req' = [req EXCEPT ![r] =
                    Finished(Merge(@,
                        [lookup |-> "miss",
                         wr |-> responseError(@.wr, StatusInternalServerError,
                                              "Internal Server Error")]))]
            ELSE req' = [req EXCEPT ![r] =
                    Merge(@, [pc |-> "handler",
                              lookup |-> IF got.err THEN "err" ELSE "miss",
                              invoked |-> @.invoked + 1,
                              wr |-> newResponseRecorder(@.wr.w)])]
    /\ UNCHANGED <<redis, dbVars, events, svc>>

\* A lookup that takes a record only from a request of the same method
LookupScopedToMethod(r) ==
    /\ req[r].pc = "lookup"
    /\ \E fault \in CallFaults(r) :
         LET got == StoreGet(redis, req[r].token, fault) IN
         /\ inject' = Struck("lookup", fault)
         /\ IF ~got.err /\ got.found
               /\ req[got.by].method = req[r].method
            THEN req' = [req EXCEPT ![r] =
                    Finished(Merge(@,
                        [lookup |-> "hit", hitBy |-> got.by,
                         wr |-> PassThrough(
                                   writeCachedResponse(@.wr.w, got.resp))]))]
            ELSE req' = [req EXCEPT ![r] =
                    Merge(@, [pc |-> "handler",
                              lookup |-> IF got.err THEN "err" ELSE "miss",
                              invoked |-> @.invoked + 1,
                              wr |-> newResponseRecorder(@.wr.w)])]
    /\ UNCHANGED <<redis, dbVars, events, svc>>

\* store.Get: a record found without error is written out and the request is
\* over; otherwise the handler runs behind a responseRecorder
Lookup(r) ==
    /\ req[r].pc = "lookup"
    /\ \E fault \in CallFaults(r) :
         LET got == StoreGet(redis, req[r].token, fault) IN
         /\ inject' = Struck("lookup", fault)
         /\ IF ~got.err /\ got.found
            THEN req' = [req EXCEPT ![r] =
                    Finished(Merge(@,
                        [lookup |-> "hit", hitBy |-> got.by,
                         wr |-> PassThrough(
                                   writeCachedResponse(@.wr.w, got.resp))]))]
            ELSE req' = [req EXCEPT ![r] =
                    Merge(@, [pc |-> "handler",
                              lookup |-> IF got.err THEN "err" ELSE "miss",
                              invoked |-> @.invoked + 1,
                              wr |-> newResponseRecorder(@.wr.w)])]
    /\ UNCHANGED <<redis, dbVars, events, svc>>

\* A write-back that answers the error of store.Set with http.Error
WriteBackSurfacesError(r) ==
    /\ req[r].pc = "writeback"
    /\ \E fault \in CallFaults(r) :
         /\ inject' = Struck("writeback", fault)
         /\ redis' = StoreSet(redis, req[r].token, toCachedResponse(req[r].wr),
                              idempotencyTTL, fault, r)
         /\ req' = [req EXCEPT ![r] =
                 Finished(Merge(@,
                     [setRes |-> IF fault THEN "err" ELSE "ok",
                      wr |-> IF fault
                             THEN responseError(@.wr,
                                      StatusInternalServerError,
                                      "Internal Server Error")
                             ELSE @.wr]))]
    /\ UNCHANGED <<dbVars, events, svc>>

\* A write-back with the TTL of the cache service
WriteBackDefaultTTL(r) ==
    /\ req[r].pc = "writeback"
    /\ \E fault \in CallFaults(r) :
         /\ inject' = Struck("writeback", fault)
         /\ redis' = StoreSet(redis, req[r].token, toCachedResponse(req[r].wr),
                              DefaultTTL, fault, r)
         /\ req' = [req EXCEPT ![r] =
                 Finished(Merge(@,
                     [setRes |-> IF fault THEN "err" ELSE "ok"]))]
    /\ UNCHANGED <<dbVars, events, svc>>

\* store.Set of the recorded 2xx response; its error is dropped
WriteBack(r) ==
    /\ req[r].pc = "writeback"
    /\ \E fault \in CallFaults(r) :
         /\ inject' = Struck("writeback", fault)
         /\ redis' = StoreSet(redis, req[r].token, toCachedResponse(req[r].wr),
                              idempotencyTTL, fault, r)
         /\ req' = [req EXCEPT ![r] =
                 Finished(Merge(@,
                     [setRes |-> IF fault THEN "err" ELSE "ok"]))]
    /\ UNCHANGED <<dbVars, events, svc>>

(***************************************************************************)
(* internal/handler: CreateProductReview, UpdateProductReview,             *)
(* DeleteProductReview                                                     *)
(***************************************************************************)
\* A handler that enters InvalidateProductCache with its transaction open
MutateInvalidatesBeforeCommit(r) ==
    /\ req[r].pc = "handler"
    /\ req[r].op \in ReviewMutations
    /\ \E dbFault \in DBFaultsOf(r) :
         LET tx == MutationTx(req[r], reviews, nextID, dbFault) IN
         /\ inject' = Struck("db", ~tx.ok /\ tx.message = CommitFailed)
         /\ reviews' = tx.reviews
         /\ nextID' = tx.nextID
         /\ req' = [req EXCEPT ![r] =
                 IF tx.ok
                 THEN Merge(@, [pc |-> "scan", prodID |-> tx.prodID,
                                review |-> tx.review,
                                loop |-> ScanStart(redis)])
                 ELSE Returned(@, responseError(@.wr, tx.status, tx.message))]
    /\ UNCHANGED <<redis, products, events, svc>>

\* A handler that clears the product's pages also when it answers an error
MutateInvalidatesOnFailure(r) ==
    /\ req[r].pc = "handler"
    /\ req[r].op \in ReviewMutations
    /\ \E dbFault \in DBFaultsOf(r) :
         LET tx == MutationTx(req[r], reviews, nextID, dbFault) IN
         /\ inject' = Struck("db", ~tx.ok /\ tx.message = CommitFailed)
         /\ reviews' = tx.reviews
         /\ nextID' = tx.nextID
         /\ redis' = IF tx.ok THEN redis
                     ELSE RedisDel(redis,
                             {k \in DOMAIN redis :
                                Match(reviewsPatternKey(parseID(req[r].pid).v),
                                      k)})
         /\ req' = [req EXCEPT ![r] =
                 IF tx.ok
                 THEN Merge(@, [pc |-> "scan", prodID |-> tx.prodID,
                                review |-> tx.review, committed |-> TRUE,
                                had |-> \E k \in DOMAIN redis :
                                          Match(reviewsPatternKey(tx.prodID),
                                                k),
                                loop |-> ScanStart(redis)])
                 ELSE Returned(@, responseError(@.wr, tx.status, tx.message))]
    /\ UNCHANGED <<products, events, svc>>

\* From the start of the handler to the commit (or the error response)
Mutate(r) ==
    /\ req[r].pc = "handler"
    /\ req[r].op \in ReviewMutations
    /\ \E dbFault \in DBFaultsOf(r) :
         LET tx == MutationTx(req[r], reviews, nextID, dbFault) IN
         /\ inject' = Struck("db", ~tx.ok /\ tx.message = CommitFailed)
         /\ reviews' = tx.reviews
         /\ nextID' = tx.nextID
         /\ req' = [req EXCEPT ![r] =
                 IF tx.ok
                 THEN Merge(@, [pc |-> "scan", prodID |-> tx.prodID,
                                review |-> tx.review, committed |-> TRUE,
                                had |-> \E k \in DOMAIN redis :
                                          Match(reviewsPatternKey(tx.prodID),
                                                k),
                                loop |-> ScanStart(redis)])
                 ELSE Returned(@, responseError(@.wr, tx.status, tx.message))]
    /\ UNCHANGED <<redis, products, events, svc>>

\* An InvalidateProductCache that returns when InvalidateReviews fails in
\* its SCAN, without calling InvalidateRating
InvalidateScanAborts(r) ==
    /\ req[r].pc = "scan"
    /\ \E fault \in CallFaults(r) :
         /\ inject' = Struck("cache", fault)
         /\ \E loop \in deleteByPatternScan(redis, req[r].loop,
                                            reviewsPatternKey(req[r].prodID),
                                            fault) :
               req' = [req EXCEPT ![r] =
                   Merge(@, [loop |-> loop,
                             pc |-> CASE fault -> "publish"
                                      [] loop.st = "scan" -> "scan"
                                      [] loop.st = "del"  -> "del"
                                      [] loop.st = "end"  -> "rating"])]
    /\ UNCHANGED <<redis, dbVars, events, svc>>

\* InvalidateProductCache -> InvalidateReviews -> deleteByPattern: SCAN
InvalidateScan(r) ==
    /\ req[r].pc = "scan"
    /\ \E fault \in CallFaults(r) :
         /\ inject' = Struck("cache", fault)
         /\ \E loop \in deleteByPatternScan(redis, req[r].loop,
                                            reviewsPatternKey(req[r].prodID),
                                            fault) :
               req' = [req EXCEPT ![r] =
                   Merge(@, [loop |-> loop,
                             pc |-> CASE loop.st = "scan" -> "scan"
                                      [] loop.st = "del"  -> "del"
                                      [] loop.st = "end"  -> "rating"])]
    /\ UNCHANGED <<redis, dbVars, events, svc>>

\* InvalidateProductCache -> InvalidateReviews -> deleteByPattern: DEL
InvalidateDel(r) ==
    /\ req[r].pc = "del"
    /\ \E fault \in CallFaults(r) :
         LET d == deleteByPatternDel(redis, req[r].loop, fault) IN
         /\ inject' = Struck("cache", fault)
         /\ redis' = d.s
         /\ req' = [req EXCEPT ![r] =
                Merge(@, [loop |-> d.loop,
                          pc |-> IF d.loop.st = "scan" THEN "scan"
                                 ELSE "rating"])]
    /\ UNCHANGED <<dbVars, events, svc>>

\* An InvalidateProductCache that leaves the rating key alone
InvalidateRatingKeySkipped(r) ==
    /\ req[r].pc = "rating"
    /\ req' = [req EXCEPT ![r].pc = "publish"]
    /\ UNCHANGED <<redis, dbVars, events, envVars>>

\* InvalidateProductCache -> InvalidateRating
InvalidateRatingKey(r) ==
    /\ req[r].pc = "rating"
    /\ \E fault \in CallFaults(r) :
         /\ inject' = Struck("cache", fault)
         /\ redis' = InvalidateRating(redis, req[r].prodID, fault)
    /\ req' = [req EXCEPT ![r].pc = "publish"]
    /\ UNCHANGED <<dbVars, events, svc>>

\* A handler that answers the error of Publisher.Publish with 500
PublishFailsRequest(r) ==
    /\ req[r].pc = "publish"
    /\ \E fault \in PublishFaults(r) :
         /\ inject' = Struck("publish", fault)
         /\ events' = IF fault THEN events
                       ELSE Append(events, EventOf(req[r]))
         /\ req' = [req EXCEPT ![r] =
                 Returned([@ EXCEPT !.published =
                                      IF fault THEN "err" ELSE "ok"],
                          IF fault
                          THEN responseError(@.wr, StatusInternalServerError,
                                             "Failed to publish event")
                          ELSE SuccessResponse(@))]
    /\ UNCHANGED <<redis, dbVars, svc>>

\* Publisher.Publish, whose error is logged, then the success response
Publish(r) ==
    /\ req[r].pc = "publish"
    /\ \E fault \in PublishFaults(r) :
         /\ inject' = Struck("publish", fault)
         /\ events' = IF fault THEN events
                       ELSE Append(events, EventOf(req[r]))
         /\ req' = [req EXCEPT ![r] =
                 Returned([@ EXCEPT !.published =
                                      IF fault THEN "err" ELSE "ok"],
                          SuccessResponse(@))]
    /\ UNCHANGED <<redis, dbVars, svc>>

(***************************************************************************)
(* internal/handler: GetProductReviews                                     *)
(***************************************************************************)
\* A GetProductReviews that answers 500 when Cache.GetReviews fails
ReadCacheFailsRequest(r) ==
    /\ req[r].pc = "handler"
    /\ req[r].op = "GetProductReviews"
    /\ LET prodID == parseID(req[r].pid) IN
       IF prodID.err
       THEN /\ req' = [req EXCEPT ![r] =
                  Returned(@, responseError(@.wr, StatusBadRequest,
                                            "Invalid product ID"))]
            /\ inject' = inject
       ELSE \E fault \in CallFaults(r) :
              LET got == GetReviews(redis, prodID.v,
                                    NormalLimit(req[r].limit),
                                    NormalOffset(req[r].offset), fault)
              IN  /\ inject' = Struck("cache", fault)
                  /\ IF got.err
                     THEN req' = [req EXCEPT ![r] =
                             Returned(@, responseError(@.wr,
                                            StatusInternalServerError,
                                            "Failed to read cache"))]
                     ELSE IF ~got.reviews.isNil
                     THEN req' = [req EXCEPT ![r] =
                             Returned(@, responseJSON(@.wr, StatusOK,
                                            ReviewsResponse(got.reviews)))]
                     ELSE req' = [req EXCEPT ![r] =
                             Merge(@, [pc |-> "read", prodID |-> prodID.v])]
    /\ UNCHANGED <<redis, dbVars, events, svc>>

\* Parse, normalise, Cache.GetReviews: a hit is answered from the cache
ReadCache(r) ==
    /\ req[r].pc = "handler"
    /\ req[r].op = "GetProductReviews"
    /\ LET prodID == parseID(req[r].pid) IN
       IF prodID.err
       THEN /\ req' = [req EXCEPT ![r] =
                  Returned(@, responseError(@.wr, StatusBadRequest,
                                            "Invalid product ID"))]
            /\ inject' = inject
       ELSE \E fault \in CallFaults(r) :
              LET got == GetReviews(redis, prodID.v,
                                    NormalLimit(req[r].limit),
                                    NormalOffset(req[r].offset), fault)
              IN  /\ inject' = Struck("cache", fault)
                  /\ IF ~got.err /\ ~got.reviews.isNil
                     THEN req' = [req EXCEPT ![r] =
                             Returned(@, responseJSON(@.wr, StatusOK,
                                            ReviewsResponse(got.reviews)))]
                     ELSE req' = [req EXCEPT ![r] =
                             Merge(@, [pc |-> "read", prodID |-> prodID.v])]
    /\ UNCHANGED <<redis, dbVars, events, svc>>

\* A read transaction without the call of Exists
ReadDatabaseSkipsExists(r) ==
    /\ req[r].pc = "read"
    /\ \E dbFault \in DBFaultsOf(r) :
         /\ inject' = Struck("db", dbFault = "commit")
         /\ req' = [req EXCEPT ![r] =
            CASE dbFault = "begin" ->
                    Returned(@, responseError(@.wr, StatusInternalServerError,
                                              "Failed to begin transaction"))
              [] dbFault = "commit" ->
                    Returned(@, responseError(@.wr, StatusInternalServerError,
                                              CommitFailed))
              [] OTHER ->
                    Merge(@, [pc |-> "fill",
                              list |-> ListByProductID(reviews, @.prodID,
                                           NormalLimit(@.limit),
                                           NormalOffset(@.offset))])]
    /\ UNCHANGED <<redis, dbVars, events, svc>>

\* The read transaction: Exists, ListByProductID, commit
ReadDatabase(r) ==
    /\ req[r].pc = "read"
    /\ \E dbFault \in DBFaultsOf(r) :
         /\ inject' = Struck("db", dbFault = "commit"
                                      /\ Exists(req[r].prodID))
         /\ req' = [req EXCEPT ![r] =
            CASE dbFault = "begin" ->
                    Returned(@, responseError(@.wr, StatusInternalServerError,
                                              "Failed to begin transaction"))
              [] dbFault # "begin" /\ ~Exists(@.prodID) ->
                    Returned(@, responseError(@.wr, StatusNotFound,
                                              "Product not found"))
              [] dbFault = "commit" /\ Exists(@.prodID) ->
                    Returned(@, responseError(@.wr, StatusInternalServerError,
                                              CommitFailed))
              [] OTHER ->
                    Merge(@, [pc |-> "fill",
                              list |-> ListByProductID(reviews, @.prodID,
                                           NormalLimit(@.limit),
                                           NormalOffset(@.offset))])]
    /\ UNCHANGED <<redis, dbVars, events, svc>>

\* Cache.SetReviews, whose error is logged, then the response
FillCache(r) ==
    /\ req[r].pc = "fill"
    /\ \E fault \in CallFaults(r) :
         /\ inject' = Struck("cache", fault)
         /\ redis' = SetReviews(redis, req[r].prodID,
                                NormalLimit(req[r].limit),
                                NormalOffset(req[r].offset), req[r].list,
                                fault, r)
    /\ req' = [req EXCEPT ![r] =
            Returned(@, responseJSON(@.wr, StatusOK, ReviewsResponse(@.list)))]
    /\ UNCHANGED <<dbVars, events, svc>>

(***************************************************************************)
(* internal/handler: GetProductById                                        *)
(***************************************************************************)
\* Parse the id, then Cache.GetRating, whose error is logged
ProductReadCache(r) ==
    /\ req[r].pc = "handler"
    /\ req[r].op = "GetProductById"
    /\ LET id == parseID(req[r].pid) IN
       IF id.err
       THEN /\ req' = [req EXCEPT ![r] =
                  Returned(@, responseError(@.wr, StatusBadRequest,
                                            "Invalid product ID"))]
            /\ inject' = inject
       ELSE \E fault \in CallFaults(r) :
              LET got == GetRating(redis, id.v, fault) IN
              /\ inject' = Struck("cache", fault)
              /\ req' = [req EXCEPT ![r] =
                     Merge(@, [pc |-> "fetch", prodID |-> id.v,
                               cachedRating |-> got.rating,
                               ratingCached |-> got.found])]
    /\ UNCHANGED <<redis, dbVars, events, svc>>

\* The read transaction: GetByID, commit
ProductFetch(r) ==
    /\ req[r].pc = "fetch"
    /\ \E dbFault \in DBFaultsOf(r) :
         /\ inject' = Struck("db", dbFault = "commit"
                                      /\ Exists(req[r].prodID))
         /\ req' = [req EXCEPT ![r] =
            CASE dbFault = "begin" ->
                    Returned(@, responseError(@.wr, StatusInternalServerError,
                                              "Failed to begin transaction"))
              [] dbFault # "begin" /\ ~Exists(@.prodID) ->
                    Returned(@, responseError(@.wr, StatusNotFound,
                                              "Product not found"))
              [] dbFault = "commit" /\ Exists(@.prodID) ->
                    Returned(@, responseError(@.wr, StatusInternalServerError,
                                              CommitFailed))
              [] OTHER ->
                    Merge(@, [pc |-> "answer",
                              product |-> AverageRating(reviews, @.prodID)])]
    /\ UNCHANGED <<redis, dbVars, events, svc>>

\* A GetProductById that answers 500 when Cache.SetRating fails
ProductAnswerReportsCacheError(r) ==
    /\ req[r].pc = "answer"
    /\ IF req[r].ratingCached
       THEN /\ req' = [req EXCEPT ![r] =
                  Returned(@, responseJSON(@.wr, StatusOK,
                              productToResponse(@.prodID, @.cachedRating)))]
            /\ UNCHANGED <<redis, inject>>
       ELSE \E fault \in CallFaults(r) :
              /\ inject' = Struck("cache", fault)
              /\ redis' = SetRating(redis, req[r].prodID, req[r].product,
                                    fault, r)
              /\ req' = [req EXCEPT ![r] =
                     IF fault
                     THEN Returned(@, responseError(@.wr,
                                        StatusInternalServerError,
                                        "Failed to cache rating"))
                     ELSE Returned(@, responseJSON(@.wr, StatusOK,
                                        productToResponse(@.prodID,
                                                          @.product)))]
    /\ UNCHANGED <<dbVars, events, svc>>

\* The cached rating replaces the database's when GetRating found one;
\* otherwise Cache.SetRating, whose error is logged; then the response
ProductAnswer(r) ==
    /\ req[r].pc = "answer"
    /\ IF req[r].ratingCached
       THEN /\ req' = [req EXCEPT ![r] =
                  Returned(@, responseJSON(@.wr, StatusOK,
                              productToResponse(@.prodID, @.cachedRating)))]
            /\ UNCHANGED <<redis, inject>>
       ELSE \E fault \in CallFaults(r) :
              /\ inject' = Struck("cache", fault)
              /\ redis' = SetRating(redis, req[r].prodID, req[r].product,
                                    fault, r)
              /\ req' = [req EXCEPT ![r] =
                     Returned(@, responseJSON(@.wr, StatusOK,
                                 productToResponse(@.prodID, @.product)))]
    /\ UNCHANGED <<dbVars, events, svc>>

(***************************************************************************)
(* internal/handler: GetProducts                                           *)
(***************************************************************************)
\* ProductRepo.List: newest first, each row with the average of its ratings
List(ps, rv, limit, offset) ==
    LET page == Take(Drop(DescSeq(ps), offset), limit)
    IN  [j \in 1..Len(page) |->
            [ID |-> page[j], AverageRating |-> AverageRating(rv, page[j])]]

\* The read transaction: List with the default limit and offset, commit
ProductsFetch(r) ==
    /\ req[r].pc = "handler"
    /\ req[r].op = "GetProducts"
    /\ \E dbFault \in DBFaultsOf(r) :
         /\ inject' = Struck("db", dbFault = "commit")
         /\ req' = [req EXCEPT ![r] =
            CASE dbFault = "begin" ->
                    Returned(@, responseError(@.wr, StatusInternalServerError,
                                              "Failed to begin transaction"))
              [] dbFault = "commit" ->
                    Returned(@, responseError(@.wr, StatusInternalServerError,
                                              CommitFailed))
              [] OTHER ->
                    Merge(@, [pc |-> "ratings", i |-> 1,
                              productList |->
                                  List(products, reviews,
                                       defaultProductLimit, 0)])]
    /\ UNCHANGED <<redis, dbVars, events, svc>>

\* One turn of the loop over productList: Cache.GetRating, whose error is
\* logged before the next turn; a rating found replaces the database's
ProductsReadCache(r) ==
    /\ req[r].pc = "ratings"
    /\ req[r].i <= Len(req[r].productList)
    /\ \E fault \in CallFaults(r) :
         LET got == GetRating(redis, req[r].productList[req[r].i].ID, fault)
         IN  /\ inject' = Struck("cache", fault)
             /\ req' = [req EXCEPT ![r] =
                    IF got.err THEN [@ EXCEPT !.i = @ + 1]
                    ELSE IF got.found
                    THEN [@ EXCEPT !.productList[@.i].AverageRating =
                                       got.rating,
                                   !.i = @ + 1]
                    ELSE [@ EXCEPT !.pc = "setrating"]]
    /\ UNCHANGED <<redis, dbVars, events, svc>>

\* The same turn when GetRating found nothing: Cache.SetRating of the
\* database's rating, whose error is logged
ProductsSetRating(r) ==
    /\ req[r].pc = "setrating"
    /\ \E fault \in CallFaults(r) :
         /\ inject' = Struck("cache", fault)
         /\ redis' = SetRating(redis, req[r].productList[req[r].i].ID,
                               req[r].productList[req[r].i].AverageRating,
                               fault, r)
    /\ req' = [req EXCEPT ![r].pc = "ratings", ![r].i = @ + 1]
    /\ UNCHANGED <<dbVars, events, svc>>

\* The loop is over: the response
ProductsAnswer(r) ==
    /\ req[r].pc = "ratings"
    /\ req[r].i > Len(req[r].productList)
    /\ req' = [req EXCEPT ![r] =
           Returned([@ EXCEPT !.productList = <<>>, !.i = 0],
                    responseJSON(@.wr, StatusOK,
                        [j \in 1..Len(@.productList) |->
                            productToResponse(@.productList[j].ID,
                                @.productList[j].AverageRating)]))]
    /\ UNCHANGED <<redis, dbVars, events, envVars>>

(***************************************************************************)
(* internal/handler: DeleteProduct, one step for each statement of its     *)
(* transaction. BeginTxx is given no options: the transaction runs at the  *)
(* default level of PostgreSQL, where a statement sees what was committed  *)
(* when it started and a DELETE waits for the transaction that holds the   *)
(* row.                                                                    *)
(***************************************************************************)
\* The requests whose open transaction has deleted the row of product id
Deleting(id) ==
    {q \in Reqs : req[q].pc = "commit" /\ req[q].prodID = id}

\* Parse the id, begin, ProductRepo.Exists
DeleteProductExists(r) ==
    /\ req[r].pc = "handler"
    /\ req[r].op = "DeleteProduct"
    /\ LET id == parseID(req[r].pid) IN
       \E dbFault \in DBFaultsOf(r) :
         req' = [req EXCEPT ![r] =
            CASE id.err ->
                    Returned(@, responseError(@.wr, StatusBadRequest,
                                              "Invalid product ID"))
              [] ~id.err /\ dbFault = "begin" ->
                    Returned(@, responseError(@.wr, StatusInternalServerError,
                                              "Failed to begin transaction"))
              [] ~id.err /\ dbFault # "begin" /\ ~Exists(id.v) ->
                    Returned(@, responseError(@.wr, StatusNotFound,
                                              "Product not found"))
              [] OTHER -> Merge(@, [pc |-> "hasReviews", prodID |-> id.v])]
    /\ UNCHANGED <<redis, dbVars, events, envVars>>

\* A DeleteProduct that does not ask whether the product has reviews
DeleteProductIgnoresReviews(r) ==
    /\ req[r].pc = "hasReviews"
    /\ req' = [req EXCEPT ![r].pc = "delete"]
    /\ UNCHANGED <<redis, dbVars, events, envVars>>

\* ReviewRepo.HasReviewsByProductID
DeleteProductHasReviews(r) ==
    /\ req[r].pc = "hasReviews"
    /\ req' = [req EXCEPT ![r] =
           IF @.cancelled
           THEN Returned(@, responseError(@.wr, StatusInternalServerError,
                                          "Failed to check product reviews"))
           ELSE IF \E j \in DOMAIN reviews : reviews[j].ProductID = @.prodID
           THEN Returned(@, responseError(@.wr, StatusConflict,
                            "Cannot delete product with existing reviews"))
           ELSE [@ EXCEPT !.pc = "delete"]]
    /\ UNCHANGED <<redis, dbVars, events, envVars>>

\* A Delete that does not wait for the transaction holding the row
DeleteProductDeleteNoWait(r) ==
    /\ req[r].pc = "delete"
    /\ req' = [req EXCEPT ![r] =
           IF @.cancelled
           THEN Returned(@, responseError(@.wr, StatusInternalServerError,
                                          "Failed to delete product"))
           ELSE IF ~Exists(@.prodID)
           THEN Returned(@, responseError(@.wr, StatusNotFound,
                                          "Product not found"))
           ELSE [@ EXCEPT !.pc = "commit"]]
    /\ UNCHANGED <<redis, dbVars, events, envVars>>

\* ProductRepo.Delete: no row affected is ErrNotFound
DeleteProductDelete(r) ==
    /\ req[r].pc = "delete"
    /\ Deleting(req[r].prodID) = {} \/ req[r].cancelled
    /\ req' = [req EXCEPT ![r] =
           IF @.cancelled
           THEN Returned(@, responseError(@.wr, StatusInternalServerError,
                                          "Failed to delete product"))
           ELSE IF ~Exists(@.prodID)
           THEN Returned(@, responseError(@.wr, StatusNotFound,
                                          "Product not found"))
           ELSE [@ EXCEPT !.pc = "commit"]]
    /\ UNCHANGED <<redis, dbVars, events, envVars>>

\* CommitTx: the row is gone, and with it the reviews that reference it
\* (ON DELETE CASCADE); then 204 with no body
DeleteProductCommit(r) ==
    /\ req[r].pc = "commit"
    /\ \E dbFault \in DBFaultsOf(r) :
         /\ inject' = Struck("db", dbFault # "none")
         /\ IF dbFault # "none"
            THEN /\ UNCHANGED <<products, reviews>>
                 /\ req' = [req EXCEPT ![r] =
                        Returned(@, responseError(@.wr,
                                        StatusInternalServerError,
                                        CommitFailed))]
            ELSE /\ products' = products \ {req[r].prodID}
                 /\ reviews' =
                       Restrict(reviews,
                                {j \in DOMAIN reviews :
                                    reviews[j].ProductID # req[r].prodID})
                 /\ req' = [req EXCEPT ![r] =
                        Returned([@ EXCEPT !.committed = TRUE],
                                 WriteHeader(@.wr, StatusNoContent))]
    /\ UNCHANGED <<redis, nextID, events, svc>>

(***************************************************************************)
(* The environment                                                         *)
(***************************************************************************)
\* The requests whose age a later lookup of their key can depend on
Aging ==
    {r \in Done : req[r].token # <<>> /\ isMutatingMethod(req[r].method)}

\* One minute passes. Requests are short against the minute: time passes
\* while no request is in flight.
Tick ==
    /\ inject \in {"none", "time"}
    /\ InFlight = {}
    /\ \/ DOMAIN redis # {}
       \/ \E r \in Aging : req[r].since < idempotencyTTL
    /\ redis' = RedisExpire(redis)
    /\ req' = [r \in Reqs |->
                IF r \in Aging /\ req[r].since < idempotencyTTL
                THEN [req[r] EXCEPT !.since = @ + 1] ELSE req[r]]
    /\ inject' = "time"
    /\ UNCHANGED <<dbVars, events, svc>>

\* Another writer of the shared store leaves bytes that do not decode
Corrupt ==
    /\ inject = "none"
    /\ \E k \in DOMAIN redis :
         /\ redis[k].val.t # "garbage"
         /\ redis' = [redis EXCEPT ![k].val = Garbage]
    /\ inject' = "corrupt"
    /\ UNCHANGED <<dbVars, events, req, svc>>

\* A request counts as arrived at the moment of its first call on the
\* store, the cache or the database: nothing the middleware or a handler
\* does before that call touches shared state.
Arriving ==
    {r \in Reqs : \/ req[r].pc = "lookup"
                  \/ req[r].pc = "handler" /\ req[r].lookup = "none"}

Turn(r) == Arriving \subseteq {r}

Next ==
    \/ \E r \in Reqs : Arrive(r) /\ Turn(r)
    \/ \E r \in Reqs : Lookup(r) /\ Turn(r)
    \/ \E r \in Reqs : WriteBack(r) /\ Turn(r)
    \/ \E r \in Reqs : Mutate(r) /\ Turn(r)
    \/ \E r \in Reqs : InvalidateScan(r) /\ Turn(r)
    \/ \E r \in Reqs : InvalidateDel(r) /\ Turn(r)
    \/ \E r \in Reqs : InvalidateRatingKey(r) /\ Turn(r)
    \/ \E r \in Reqs : Publish(r) /\ Turn(r)
    \/ \E r \in Reqs : ReadCache(r) /\ Turn(r)
    \/ \E r \in Reqs : ReadDatabase(r) /\ Turn(r)
    \/ \E r \in Reqs : FillCache(r) /\ Turn(r)
    \/ Arriving = {} /\ Tick
    \/ Arriving = {} /\ Corrupt

Spec == Init /\ [][Next]_vars

(***************************************************************************)
(* The server under a client that sends a request when the one before is   *)
(* over: no two requests are in flight together                            *)
(***************************************************************************)
ArriveAlone(r) == InFlight = {} /\ Arrive(r)

NextSeq ==
    \/ \E r \in Reqs : ArriveAlone(r)
    \/ \E r \in Reqs : Lookup(r)
    \/ \E r \in Reqs : WriteBack(r)
    \/ \E r \in Reqs : Mutate(r)
    \/ \E r \in Reqs : InvalidateScan(r)
    \/ \E r \in Reqs : InvalidateDel(r)
    \/ \E r \in Reqs : InvalidateRatingKey(r)
    \/ \E r \in Reqs : Publish(r)
    \/ \E r \in Reqs : ReadCache(r)
    \/ \E r \in Reqs : ReadDatabase(r)
    \/ \E r \in Reqs : FillCache(r)
    \/ Tick
    \/ Corrupt

SpecSeq == Init /\ [][NextSeq]_vars

(***************************************************************************)
(* The same client, sending GetProductById as well                         *)
(***************************************************************************)
ArriveProduct(r) ==
    /\ InFlight = {}
    /\ req[r].pc = "idle"
    /\ \A q \in Reqs : q < r => req[q].pc # "idle"
    /\ \E pid \in ProductPaths, token \in TokenInputs :
         req' = [req EXCEPT ![r] =
                    Merge(IdleReq,
                          [pc |-> "handler", op |-> "GetProductById",
                           token |-> token, pid |-> pid, method |-> "GET",
                           invoked |-> 1])]
    /\ UNCHANGED <<redis, dbVars, events, envVars>>

NextHandlers ==
    \/ NextSeq
    \/ \E r \in Reqs : ArriveProduct(r)
    \/ \E r \in Reqs : ProductReadCache(r)
    \/ \E r \in Reqs : ProductFetch(r)
    \/ \E r \in Reqs : ProductAnswer(r)

SpecHandlers == Init /\ [][NextHandlers]_vars

(***************************************************************************)
(* A client of the whole API that sends no idempotency key and sends its   *)
(* next request when it has the response to the one before                 *)
(***************************************************************************)
\* the events a behaviour publishes
MaxEvents == 2

ShopOps ==
    ReviewMutations \cup
        {"GetProductReviews", "GetProductById", "GetProducts", "DeleteProduct"}

ShopMethodOf(op) ==
    CASE op \in ReviewMutations -> MethodOf(op)
      [] op = "DeleteProduct" -> "DELETE"
      [] OTHER -> "GET"

ShopRatings == {2, 5}
ShopReviewPaths == {<<"1">>, <<"2">>}

ShopInputsOf(op) ==
    CASE op = "CreateProductReview" ->
            {[pid |-> p, rid |-> <<>>, body |-> [ok |-> TRUE, rating |-> n]] :
                p \in ProductPaths, n \in ShopRatings}
      [] op = "UpdateProductReview" ->
            {[pid |-> p, rid |-> i, body |-> [ok |-> TRUE, rating |-> n]] :
                p \in ProductPaths, i \in ShopReviewPaths,
                n \in ShopRatings}
      [] op = "DeleteProductReview" ->
            {[pid |-> p, rid |-> i, body |-> BadBody] :
                p \in ProductPaths, i \in ShopReviewPaths}
      [] op = "GetProducts" ->
            {[pid |-> <<>>, rid |-> <<>>, body |-> BadBody]}
      [] OTHER ->
            {[pid |-> p, rid |-> <<>>, body |-> BadBody] :
                p \in ProductPaths}

\* Slot r takes the next request: the reviews table grows to MaxReqs rows
\* and the broker accepts MaxEvents events at most
ShopRequest(r) ==
    /\ req[r].pc \in {"idle", "done"}
    /\ \E op \in ShopOps :
         /\ op \in ReviewMutations => Len(events) < MaxEvents
         /\ op = "CreateProductReview" => nextID <= MaxReqs
         /\ \E in \in ShopInputsOf(op) :
              req' = [req EXCEPT ![r] =
                         Merge(IdleReq,
                               [pc |-> "handler", op |-> op, pid |-> in.pid,
                                rid |-> in.rid, body |-> in.body,
                                method |-> ShopMethodOf(op),
                                invoked |-> 1])]
    /\ UNCHANGED <<redis, dbVars, events, envVars>>

ArriveShop == InFlight = {} /\ ShopRequest(1)

NextShop ==
    \/ ArriveShop
    \/ \E r \in Reqs : Mutate(r)
    \/ \E r \in Reqs : InvalidateScan(r)
    \/ \E r \in Reqs : InvalidateDel(r)
    \/ \E r \in Reqs : InvalidateRatingKey(r)
    \/ \E r \in Reqs : Publish(r)
    \/ \E r \in Reqs : ReadCache(r)
    \/ \E r \in Reqs : ReadDatabase(r)
    \/ \E r \in Reqs : FillCache(r)
    \/ \E r \in Reqs : ProductReadCache(r)
    \/ \E r \in Reqs : ProductFetch(r)
    \/ \E r \in Reqs : ProductAnswer(r)
    \/ \E r \in Reqs : ProductsFetch(r)
    \/ \E r \in Reqs : ProductsReadCache(r)
    \/ \E r \in Reqs : ProductsSetRating(r)
    \/ \E r \in Reqs : ProductsAnswer(r)
    \/ \E r \in Reqs : DeleteProductExists(r)
    \/ \E r \in Reqs : DeleteProductHasReviews(r)
    \/ \E r \in Reqs : DeleteProductDelete(r)
    \/ \E r \in Reqs : DeleteProductCommit(r)

SpecShop == Init /\ [][NextShop]_vars

(***************************************************************************)
(* The handlers built with Cache and Publisher nil: every `if h.Cache !=   *)
(* nil` and `if h.Publisher != nil` block is skipped, so that a handler is *)
(* its transaction and its response. Each operator gives the response and  *)
(* the database the handler leaves, from the database as it is.            *)
(***************************************************************************)
BareResult(wr, rv, nid, ps) ==
    [wr |-> wr, reviews |-> rv, nextID |-> nid, products |-> ps]

\* CreateProductReview, UpdateProductReview, DeleteProductReview
BareReviewMutation(rq) ==
    LET tx == MutationTx(rq, reviews, nextID, "none") IN
    BareResult(IF tx.ok THEN SuccessResponse(Merge(rq, [review |-> tx.review]))
               ELSE responseError(rq.wr, tx.status, tx.message),
               tx.reviews, tx.nextID, products)

BareGetProductReviews(rq) ==
    LET prodID == parseID(rq.pid) IN
    BareResult(IF prodID.err
               THEN responseError(rq.wr, StatusBadRequest,
                                  "Invalid product ID")
               ELSE IF ~Exists(prodID.v)
               THEN responseError(rq.wr, StatusNotFound, "Product not found")
               ELSE responseJSON(rq.wr, StatusOK,
                        ReviewsResponse(
                            ListByProductID(reviews, prodID.v,
                                            NormalLimit(rq.limit),
                                            NormalOffset(rq.offset)))),
               reviews, nextID, products)

BareGetProductById(rq) ==
    LET id == parseID(rq.pid) IN
    BareResult(IF id.err
               THEN responseError(rq.wr, StatusBadRequest,
                                  "Invalid product ID")
               ELSE IF ~Exists(id.v)
               THEN responseError(rq.wr, StatusNotFound, "Product not found")
               ELSE responseJSON(rq.wr, StatusOK,
                        productToResponse(id.v,
                                          AverageRating(reviews, id.v))),
               reviews, nextID, products)

BareGetProducts(rq) ==
    LET productList == List(products, reviews, defaultProductLimit, 0) IN
    BareResult(responseJSON(rq.wr, StatusOK,
                   [j \in 1..Len(productList) |->
                       productToResponse(productList[j].ID,
                                         productList[j].AverageRating)]),
               reviews, nextID, products)

\* DeleteProduct does not refer to the cache
BareDeleteProduct(rq) ==
    LET id == parseID(rq.pid) IN
    IF id.err
    THEN BareResult(responseError(rq.wr, StatusBadRequest,
                                  "Invalid product ID"),
                    reviews, nextID, products)
    ELSE IF ~Exists(id.v)
    THEN BareResult(responseError(rq.wr, StatusNotFound,
                                  "Product not found"),
                    reviews, nextID, products)
    ELSE IF \E j \in DOMAIN reviews : reviews[j].ProductID = id.v
    THEN BareResult(responseError(rq.wr, StatusConflict,
                        "Cannot delete product with existing reviews"),
                    reviews, nextID, products)
    ELSE BareResult(WriteHeader(rq.wr, StatusNoContent),
                    reviews, nextID, products \ {id.v})

BareHandler(rq) ==
    CASE rq.op \in ReviewMutations     -> BareReviewMutation(rq)
      [] rq.op = "GetProductReviews"   -> BareGetProductReviews(rq)
      [] rq.op = "GetProductById"      -> BareGetProductById(rq)
      [] rq.op = "GetProducts"         -> BareGetProducts(rq)
      [] rq.op = "DeleteProduct"       -> BareDeleteProduct(rq)

(***************************************************************************)
(* One client and two servers on the same database: each request is        *)
(* answered by the handlers without a cache (slot 2, at once) and by the   *)
(* handlers with a cache (slot 1). The cache is of no use: it has lost     *)
(* what it was given when the next request arrives and one of its calls   *)
(* may fail in each request; Publish may fail once. The database does not  *)
(* fail.                                                                   *)
(***************************************************************************)
ArriveBoth ==
    /\ InFlight = {}
    /\ \E op \in ShopOps :
         /\ op \in ReviewMutations => Len(events) < MaxEvents
         /\ op = "CreateProductReview" => nextID <= MaxReqs
         /\ \E in \in ShopInputsOf(op) :
              LET rq == Merge(IdleReq,
                              [pc |-> "handler", op |-> op, pid |-> in.pid,
                               rid |-> in.rid, body |-> in.body,
                               method |-> ShopMethodOf(op), invoked |-> 1])
                  bare == BareHandler(rq)
              IN  /\ req' = [req EXCEPT
                               ![1] = rq,
                               ![2] = Finished([rq EXCEPT !.wr = bare.wr])]
                  /\ svc' = [svc EXCEPT
                               !.bare = [reviews |-> bare.reviews,
                                         nextID |-> bare.nextID,
                                         products |-> bare.products]]
    /\ redis' = <<>>
    /\ inject' = IF inject = "cache" THEN "none" ELSE inject
    /\ UNCHANGED <<dbVars, events>>

NoDBFails == inject' # "db"

\* The SCAN of a mutation finds no key in the store that has lost its
\* entries, so that deleteByPattern issues no DEL
NextBare ==
    \/ ArriveBoth
    \/ \E r \in Reqs : Mutate(r) /\ NoDBFails
    \/ \E r \in Reqs : InvalidateScan(r) /\ NoDBFails
    \/ \E r \in Reqs : InvalidateRatingKey(r) /\ NoDBFails
    \/ \E r \in Reqs : Publish(r) /\ NoDBFails
    \/ \E r \in Reqs : ReadCache(r) /\ NoDBFails
    \/ \E r \in Reqs : ReadDatabase(r) /\ NoDBFails
    \/ \E r \in Reqs : FillCache(r) /\ NoDBFails
    \/ \E r \in Reqs : ProductReadCache(r) /\ NoDBFails
    \/ \E r \in Reqs : ProductFetch(r) /\ NoDBFails
    \/ \E r \in Reqs : ProductAnswer(r) /\ NoDBFails
    \/ \E r \in Reqs : ProductsFetch(r) /\ NoDBFails
    \/ \E r \in Reqs : ProductsReadCache(r) /\ NoDBFails
    \/ \E r \in Reqs : ProductsSetRating(r) /\ NoDBFails
    \/ \E r \in Reqs : ProductsAnswer(r) /\ NoDBFails
    \/ \E r \in Reqs : DeleteProductExists(r) /\ NoDBFails
    \/ \E r \in Reqs : DeleteProductHasReviews(r) /\ NoDBFails
    \/ \E r \in Reqs : DeleteProductDelete(r) /\ NoDBFails
    \/ \E r \in Reqs : DeleteProductCommit(r) /\ NoDBFails

SpecBare == Init /\ [][NextBare]_vars

(***************************************************************************)
(* The same client, which may drop its connection while its request is in  *)
(* flight: net/http cancels the request's context                          *)
(***************************************************************************)
Disconnect(r) ==
    /\ inject = "none"
    /\ r \in InFlight
    /\ ~req[r].cancelled
    /\ req' = [req EXCEPT ![r].cancelled = TRUE]
    /\ inject' = "disconnect"
    /\ UNCHANGED <<redis, dbVars, events, svc>>

NextCancel ==
    \/ NextSeq
    \/ \E r \in Reqs : Disconnect(r)

SpecCancel == Init /\ [][NextCancel]_vars

(***************************************************************************)
(* A client that reads the reviews of a product with two reviews, page by  *)
(* page, each request sent when the one before is over                     *)
(***************************************************************************)
PagingLimits == {NilPtr, Ptr(-5), Ptr(0), Ptr(1), Ptr(100), Ptr(1000)}
PagingOffsets == {NilPtr, Ptr(-5), Ptr(0), Ptr(1)}

InitPaging ==
    /\ svc = SvcIdle
    /\ redis = [k \in {} |-> 0]
    /\ reviews = [j \in {1, 2} |-> [ProductID |-> 1, Rating |-> 6 - j]]
    /\ nextID = 3
    /\ products = Products
    /\ events = <<>>
    /\ req = [r \in Reqs |-> IdleReq]
    /\ inject = "none"

ArrivePaging ==
    /\ req[1].pc \in {"idle", "done"}
    /\ \E pid \in ProductPaths, limit \in PagingLimits,
          offset \in PagingOffsets :
         req' = [req EXCEPT ![1] =
                    Merge(IdleReq,
                          [pc |-> "handler", op |-> "GetProductReviews",
                           pid |-> pid, limit |-> limit, offset |-> offset,
                           method |-> "GET", invoked |-> 1])]
    /\ UNCHANGED <<redis, dbVars, events, envVars>>

NextPaging ==
    \/ ArrivePaging
    \/ \E r \in Reqs : ReadCache(r)
    \/ \E r \in Reqs : ReadDatabase(r)
    \/ \E r \in Reqs : FillCache(r)

SpecPaging == InitPaging /\ [][NextPaging]_vars

(***************************************************************************)
(* Clients that each send one DeleteProduct for the same product, with no  *)
(* idempotency key, at any time; one of them may drop its connection       *)
(***************************************************************************)
ArriveDelete(r) ==
    /\ req[r].pc = "idle"
    /\ \E pid \in ProductPaths :
         req' = [req EXCEPT ![r] =
                    Merge(IdleReq,
                          [pc |-> "handler", op |-> "DeleteProduct",
                           pid |-> pid, method |-> "DELETE",
                           invoked |-> 1])]
    /\ UNCHANGED <<redis, dbVars, events, envVars>>

NextDelete ==
    \/ \E r \in Reqs : ArriveDelete(r)
    \/ \E r \in Reqs : DeleteProductExists(r)
    \/ \E r \in Reqs : DeleteProductHasReviews(r)
    \/ \E r \in Reqs : DeleteProductDelete(r)
    \/ \E r \in Reqs : DeleteProductCommit(r)
    \/ \E r \in Reqs : Disconnect(r)

SpecDelete == Init /\ [][NextDelete]_vars

(***************************************************************************)
(* The cache service under one caller that issues its calls one after the  *)
(* other: SetReviews and SetRating for any product and page, and           *)
(* InvalidateProductCache one Redis call at a time. Any Redis call may     *)
(* fail.                                                                   *)
(***************************************************************************)
CacheProducts == {1, 12}
CachePages == {[limit |-> 10, offset |-> 0], [limit |-> 1, offset |-> 10]}
CacheLists == {Slice(<<[ID |-> 1, ProductID |-> 1, Rating |-> 5]>>)}
CacheRatings == {NilPtr, Ptr(0), Ptr(4)}

InitCache ==
    /\ svc = SvcIdle
    /\ redis = [k \in {} |-> 0]
    /\ reviews = [i \in {} |-> 0]
    /\ nextID = 1
    /\ products = Products
    /\ events = <<>>
    /\ req = [r \in Reqs |-> IdleReq]
    /\ inject = "none"

CallSetReviews ==
    /\ svc.pc \in {"idle", "returned"}
    /\ \E productID \in CacheProducts, page \in CachePages,
          list \in CacheLists, fault \in BOOLEAN :
         redis' = SetReviews(redis, productID, page.limit, page.offset, list,
                             fault, 0)
    /\ svc' = SvcIdle
    /\ UNCHANGED <<dbVars, events, req, inject>>

CallSetRating ==
    /\ svc.pc \in {"idle", "returned"}
    /\ \E productID \in CacheProducts, rating \in CacheRatings,
          fault \in BOOLEAN :
         /\ redis' = SetRating(redis, productID, rating, fault, 0)
         /\ svc' = [SvcIdle EXCEPT !.op = "SetRating",
                                   !.productID = productID,
                                   !.rating = rating, !.failed = fault]
    /\ UNCHANGED <<dbVars, events, req, inject>>

CallInvalidateRating ==
    /\ svc.pc \in {"idle", "returned"}
    /\ \E productID \in CacheProducts, fault \in BOOLEAN :
         /\ redis' = InvalidateRating(redis, productID, fault)
         /\ svc' = [SvcIdle EXCEPT !.op = "InvalidateRating",
                                   !.productID = productID,
                                   !.failed = fault]
    /\ UNCHANGED <<dbVars, events, req, inject>>

\* A minute passes between two calls
CacheTick ==
    /\ svc.pc \in {"idle", "returned"}
    /\ DOMAIN redis # {}
    /\ redis' = RedisExpire(redis)
    /\ svc' = [SvcIdle EXCEPT
                 !.op = "Tick",
                 !.expired = {p \in CacheProducts :
                                /\ RedisHas(redis, ratingKey(p))
                                /\ ~RedisHas(RedisExpire(redis),
                                             ratingKey(p))}]
    /\ UNCHANGED <<dbVars, events, req, inject>>

\* InvalidateProductCache is entered: InvalidateReviews starts its loop
CallInvalidateProductCache ==
    /\ svc.pc \in {"idle", "returned"}
    /\ \E productID \in CacheProducts :
         svc' = [SvcIdle EXCEPT !.pc = "scan", !.productID = productID,
                                !.loop = ScanStart(redis),
                                !.op = "InvalidateProductCache"]
    /\ UNCHANGED <<redis, dbVars, events, req, inject>>

\* deleteByPattern: SCAN
StepScan ==
    /\ svc.pc = "scan"
    /\ \E fault \in BOOLEAN :
         \E loop \in deleteByPatternScan(redis, svc.loop,
                                         reviewsPatternKey(svc.productID),
                                         fault) :
            svc' = [svc EXCEPT
                      !.loop = loop,
                      !.failed = @ \/ fault,
                      !.scans = @ + 1,
                      !.pc = CASE loop.st = "scan" -> "scan"
                               [] loop.st = "del"  -> "del"
                               [] loop.st = "end"  -> "rating"]
    /\ UNCHANGED <<redis, dbVars, events, req, inject>>

\* deleteByPattern: DEL of the batch
StepDel ==
    /\ svc.pc = "del"
    /\ \E fault \in BOOLEAN :
         LET d == deleteByPatternDel(redis, svc.loop, fault) IN
         /\ redis' = d.s
         /\ svc' = [svc EXCEPT
                      !.loop = d.loop,
                      !.failed = @ \/ fault,
                      !.pc = IF d.loop.st = "scan" THEN "scan" ELSE "rating"]
    /\ UNCHANGED <<dbVars, events, req, inject>>

\* InvalidateRating, after which InvalidateProductCache returns
StepInvalidateRating ==
    /\ svc.pc = "rating"
    /\ \E fault \in BOOLEAN :
         /\ redis' = InvalidateRating(redis, svc.productID, fault)
         /\ svc' = [svc EXCEPT !.failed = @ \/ fault, !.pc = "returned",
                                !.loop = LoopEnd]
    /\ UNCHANGED <<dbVars, events, req, inject>>

NextCache ==
    \/ CallSetReviews
    \/ CallSetRating
    \/ CallInvalidateProductCache
    \/ StepScan
    \/ StepDel
    \/ StepInvalidateRating

SpecCache == InitCache /\ [][NextCache]_vars


(***************************************************************************)
(* The review-list keys: a caller writes pages with SetReviews             *)
(***************************************************************************)
KeyProducts == {1, 11}
KeyLimits == {1, 11}
KeyOffsets == {0, 1}
KeyLists ==
    {Slice(<<[ID |-> i, ProductID |-> 1, Rating |-> 5]>>) : i \in {1, 2}}

\* the store holds at most MaxPages pages
MaxPages == 2

CallSetReviewsAt ==
    /\ \E productID \in KeyProducts, limit \in KeyLimits,
          offset \in KeyOffsets, list \in KeyLists, fault \in BOOLEAN :
         /\ \/ reviewsKey(productID, limit, offset) \in DOMAIN redis
            \/ Cardinality(DOMAIN redis) < MaxPages
         /\ redis' = SetReviews(redis, productID, limit, offset, list,
                                fault, 0)
         /\ svc' = [SvcIdle EXCEPT
                      !.op = "SetReviews", !.productID = productID,
                      !.page = [limit |-> limit, offset |-> offset],
                      !.list = list, !.failed = fault,
                      !.key = reviewsKey(productID, limit, offset)]
    /\ UNCHANGED <<dbVars, events, req, inject>>

\* InvalidateReviews in one step, when none of its calls fails
CallInvalidateReviews ==
    /\ \E productID \in KeyProducts :
         /\ redis' = RedisDel(redis,
                         {k \in DOMAIN redis :
                             Match(reviewsPatternKey(productID), k)})
         /\ svc' = [SvcIdle EXCEPT !.op = "InvalidateReviews",
                                   !.productID = productID]
    /\ UNCHANGED <<dbVars, events, req, inject>>

NextKeys == CallSetReviewsAt \/ CallInvalidateReviews

SpecKeys == InitCache /\ [][NextKeys]_vars

(***************************************************************************)
(* Time to live: a caller sets and invalidates the default page and the    *)
(* rating of one product while minutes pass                                *)
(***************************************************************************)
TTLProduct == 1

SetReviewsTTL ==
    /\ \E list \in KeyLists, fault \in BOOLEAN :
         /\ redis' = SetReviews(redis, TTLProduct, defaultReviewLimit, 0,
                                list, fault, 0)
         /\ svc' = [svc EXCEPT
                      !.op = "SetReviews", !.failed = fault,
                      !.wroteReviews =
                          IF fault THEN @
                          ELSE [set |-> TRUE, at |-> 0, list |-> list]]
    /\ UNCHANGED <<dbVars, events, req, inject>>

SetRatingTTL ==
    /\ \E rating \in CacheRatings, fault \in BOOLEAN :
         /\ redis' = SetRating(redis, TTLProduct, rating, fault, 0)
         /\ svc' = [svc EXCEPT
                      !.op = "SetRating", !.failed = fault,
                      !.wroteRating =
                          IF fault THEN @
                          ELSE [set |-> TRUE, at |-> 0, rating |-> rating]]
    /\ UNCHANGED <<dbVars, events, req, inject>>

\* InvalidateReviews, its SCAN and DEL taken in one step
InvalidateReviewsTTL ==
    /\ \E fault \in BOOLEAN :
         /\ redis' = IF fault THEN redis
                     ELSE RedisDel(redis,
                             {k \in DOMAIN redis :
                                 Match(reviewsPatternKey(TTLProduct), k)})
         /\ svc' = [svc EXCEPT !.op = "InvalidateReviews",
                               !.failed = fault,
                               !.wroteReviews = SvcIdle.wroteReviews]
    /\ UNCHANGED <<dbVars, events, req, inject>>

InvalidateRatingTTL ==
    /\ \E fault \in BOOLEAN :
         /\ redis' = InvalidateRating(redis, TTLProduct, fault)
         /\ svc' = [svc EXCEPT !.op = "InvalidateRating",
                               !.failed = fault,
                               !.wroteRating = SvcIdle.wroteRating]
    /\ UNCHANGED <<dbVars, events, req, inject>>

\* A minute passes; the minutes since a write are counted up to the minute
\* after its time to live
MinuteTTL ==
    /\ \/ DOMAIN redis # {}
       \/ svc.wroteReviews.set /\ svc.wroteReviews.at <= DefaultTTL
       \/ svc.wroteRating.set /\ svc.wroteRating.at <= DefaultTTL
    /\ redis' = RedisExpire(redis)
    /\ svc' = [svc EXCEPT
                 !.op = "Tick", !.failed = FALSE,
                 !.wroteReviews.at =
                     IF svc.wroteReviews.set /\ @ <= DefaultTTL
                     THEN @ + 1 ELSE @,
                 !.wroteRating.at =
                     IF svc.wroteRating.set /\ @ <= DefaultTTL
                     THEN @ + 1 ELSE @]
    /\ UNCHANGED <<dbVars, events, req, inject>>

NextTTL ==
    \/ SetReviewsTTL
    \/ SetRatingTTL
    \/ InvalidateReviewsTTL
    \/ InvalidateRatingTTL
    \/ MinuteTTL

SpecTTL == InitCache /\ [][NextTTL]_vars

(***************************************************************************)
(* Concurrent invalidations: each caller enters InvalidateProductCache     *)
(* once, as a mutating handler does after its commit, on a store that      *)
(* nobody populates meanwhile and whose calls do not fail                  *)
(***************************************************************************)
\* The first page and the rating of product 1, the first page of the others
RaceKeys ==
    {reviewsKey(p, defaultReviewLimit, 0) : p \in CacheProducts}
    \cup {ratingKey(1)}

\* What SetReviews and SetRating have left under a key
RaceEntry(k) ==
    [val |-> IF k \in {ratingKey(p) : p \in CacheProducts}
             THEN MarshalRating(NilPtr)
             ELSE MarshalReviews(CHOOSE l \in CacheLists : TRUE),
     ttl |-> DefaultTTL, age |-> 0, by |-> 0]

InitRace ==
    /\ \E keys \in SUBSET RaceKeys :
         /\ redis = [k \in keys |-> RaceEntry(k)]
         /\ svc = [SvcIdle EXCEPT !.start = redis]
    /\ reviews = [i \in {} |-> 0]
    /\ nextID = 1
    /\ products = Products
    /\ events = <<>>
    /\ req = [r \in Reqs |-> IdleReq]
    /\ inject = "none"

\* Caller r enters InvalidateProductCache(productID)
EnterInvalidate(r) ==
    /\ req[r].pc = "idle"
    /\ \A q \in Reqs : q < r => req[q].pc # "idle"
    /\ \E productID \in CacheProducts :
         req' = [req EXCEPT ![r] =
                    Merge(IdleReq, [pc |-> "scan", prodID |-> productID,
                                    loop |-> ScanStart(redis)])]
    /\ UNCHANGED <<redis, dbVars, events, envVars>>

NoCallFails == inject' = "none"

NextRace ==
    \/ \E r \in Reqs : EnterInvalidate(r)
    \/ \E r \in Reqs : InvalidateScan(r) /\ NoCallFails
    \/ \E r \in Reqs : InvalidateDel(r) /\ NoCallFails
    \/ \E r \in Reqs : InvalidateRatingKey(r) /\ NoCallFails

SpecRace == InitRace /\ [][NextRace]_vars

(***************************************************************************)
(* The middleware around any http.Handler: a client sends its POST with    *)
(* one key again and again, each request when the one before is over; the  *)
(* handler sets and adds headers, calls WriteHeader and Write in any order *)
(* and any number of times, and may end as responseJSON does when Encode   *)
(* fails. No call on the store fails.                                      *)
(***************************************************************************)
\* the recorder buffers MaxChunks writes, a header has MaxValues values
MaxChunks == 1
MaxValues == 2

RecorderToken == <<"k">>
RecorderHeaders == {"Set-Cookie"}
\* what the handler sets a header to, and what it adds to one
RecorderValues == {"a=1"}
RecorderAdded == {"b=2"}
RecorderCodes == {StatusCreated, StatusInternalServerError}
RecorderChunks == {<<"x">>}

ArriveRecorder(r) ==
    /\ InFlight = {}
    /\ req[r].pc = "idle"
    /\ \A q \in Reqs : q < r => req[q].pc # "idle"
    /\ req' = [req EXCEPT ![r] =
                 Merge(IdleReq, [pc |-> "lookup", op |-> "next",
                                 token |-> RecorderToken, method |-> "POST"])]
    /\ UNCHANGED <<redis, dbVars, events, envVars>>

\* The handler's calls on the writer it was given
Calling(r) == req[r].pc = "handler" /\ req[r].op = "next"

HandlerSetsHeader(r) ==
    /\ Calling(r)
    /\ \E k \in RecorderHeaders, v \in RecorderValues :
         req' = [req EXCEPT ![r].wr = SetHeader(@, k, v)]
    /\ UNCHANGED <<redis, dbVars, events, envVars>>

HandlerAddsHeader(r) ==
    /\ Calling(r)
    /\ \E k \in RecorderHeaders, v \in RecorderAdded :
         /\ k \in DOMAIN Header(req[r].wr) =>
               Len(Header(req[r].wr)[k]) < MaxValues
         /\ req' = [req EXCEPT ![r].wr = AddHeader(@, k, v)]
    /\ UNCHANGED <<redis, dbVars, events, envVars>>

HandlerWritesHeader(r) ==
    /\ Calling(r)
    /\ \E code \in RecorderCodes :
         req' = [req EXCEPT ![r].wr = WriteHeader(@, code)]
    /\ UNCHANGED <<redis, dbVars, events, envVars>>

HandlerWrites(r) ==
    /\ Calling(r)
    /\ Len(req[r].wr.body) < MaxChunks
    /\ \E b \in RecorderChunks :
         req' = [req EXCEPT ![r].wr = Write(@, b)]
    /\ UNCHANGED <<redis, dbVars, events, envVars>>

\* responseJSON after its WriteHeader: Encode fails, http.Error follows
EncodeFails(r) ==
    /\ Calling(r)
    /\ req[r].wr.w.wroteHeader
    /\ Len(req[r].wr.body) < MaxChunks
    /\ req' = [req EXCEPT ![r].wr =
                 httpError(@, "Failed to encode response",
                           StatusInternalServerError)]
    /\ UNCHANGED <<redis, dbVars, events, envVars>>

\* The handler returns: net/http sends 200 when no status line went out,
\* and the middleware looks at rec.statusCode
HandlerReturns(r) ==
    /\ Calling(r)
    /\ req' = [req EXCEPT ![r] =
                 Returned(@, [@.wr EXCEPT
                                !.w = ResponseWriteHeader(@, StatusOK)])]
    /\ UNCHANGED <<redis, dbVars, events, envVars>>

NextRecorder ==
    \/ \E r \in Reqs : ArriveRecorder(r)
    \/ \E r \in Reqs : Lookup(r) /\ NoCallFails
    \/ \E r \in Reqs : HandlerSetsHeader(r)
    \/ \E r \in Reqs : HandlerAddsHeader(r)
    \/ \E r \in Reqs : HandlerWritesHeader(r)
    \/ \E r \in Reqs : HandlerWrites(r)
    \/ \E r \in Reqs : EncodeFails(r)
    \/ \E r \in Reqs : HandlerReturns(r)
    \/ \E r \in Reqs : WriteBack(r) /\ NoCallFails

SpecRecorder == Init /\ [][NextRecorder]_vars

(***************************************************************************)
(* InvalidateProductCache alone, one Redis call at a time, on a store that *)
(* holds pages and ratings already; any call may fail. Each SCAN and DEL   *)
(* returns and the goroutine takes its next step.                          *)
(***************************************************************************)
LoopKeys ==
    {reviewsKey(1, page.limit, page.offset) : page \in CachePages}
    \cup {reviewsKey(12, defaultReviewLimit, 0), ratingKey(1)}

InitLoop ==
    /\ \E keys \in SUBSET LoopKeys : redis = [k \in keys |-> RaceEntry(k)]
    /\ svc = SvcIdle
    /\ reviews = [i \in {} |-> 0]
    /\ nextID = 1
    /\ products = Products
    /\ events = <<>>
    /\ req = [r \in Reqs |-> IdleReq]
    /\ inject = "none"

NextLoop ==
    \/ CallInvalidateProductCache
    \/ StepScan
    \/ StepDel
    \/ StepInvalidateRating

SpecLoop ==
    InitLoop /\ [][NextLoop]_vars /\ WF_vars(StepScan) /\ WF_vars(StepDel)

(***************************************************************************)
(* Two clients that read and change the reviews of one product at the same *)
(* time, each sending its next request when it has its response, while no  *)
(* call on Redis, the database or the broker fails                         *)
(***************************************************************************)
Pair == {1, 2}

OverlapOps == ReviewMutations \cup {"GetProductReviews"}

\* The requests in flight for one of the operations
Pending(ops) == {q \in InFlight : req[q].op \in ops}

ArriveOverlap(r) ==
    /\ r \in Pair
    /\ req[r].pc \in {"idle", "done"}
    /\ \E op \in OverlapOps :
         /\ op \in ReviewMutations =>
               Len(events) + Cardinality(Pending(ReviewMutations))
                  < MaxEvents
         /\ op = "CreateProductReview" =>
               nextID + Cardinality(Pending({"CreateProductReview"}))
                  <= MaxReqs
         /\ \E in \in ShopInputsOf(op) :
              req' = [req EXCEPT ![r] =
                         Merge(IdleReq,
                               [pc |-> "handler", op |-> op, pid |-> in.pid,
                                rid |-> in.rid, body |-> in.body,
                                method |-> ShopMethodOf(op),
                                invoked |-> 1])]
    /\ UNCHANGED <<redis, dbVars, events, envVars>>

NextOverlap ==
    \/ \E r \in Reqs : ArriveOverlap(r)
    \/ \E r \in Reqs : Mutate(r) /\ NoCallFails
    \/ \E r \in Reqs : InvalidateScan(r) /\ NoCallFails
    \/ \E r \in Reqs : InvalidateDel(r) /\ NoCallFails
    \/ \E r \in Reqs : InvalidateRatingKey(r) /\ NoCallFails
    \/ \E r \in Reqs : Publish(r) /\ NoCallFails
    \/ \E r \in Reqs : ReadCache(r) /\ NoCallFails
    \/ \E r \in Reqs : ReadDatabase(r) /\ NoCallFails
    \/ \E r \in Reqs : FillCache(r) /\ NoCallFails

SpecOverlap == Init /\ [][NextOverlap]_vars

(***************************************************************************)
(* The rating entries under one caller of SetRating and InvalidateRating,  *)
(* with the minutes that pass between two calls                            *)
(***************************************************************************)
NextRating ==
    \/ CallSetRating
    \/ CallInvalidateRating
    \/ CacheTick

SpecRating == InitCache /\ [][NextRating]_vars

TypeOK ==
    /\ inject \in Disturbances
    /\ svc.pc \in {"idle", "scan", "del", "rating", "returned"}
    /\ nextID \in 1..(MaxReqs + 1)
    /\ \A r \in Reqs : req[r].pc \in
          {"idle", "lookup", "handler", "scan", "del", "rating", "publish",
           "read", "fill", "fetch", "answer", "ratings", "setrating",
           "hasReviews", "delete", "commit", "writeback", "done"}

(***************************************************************************)
(* Properties                                                              *)
(***************************************************************************)
\* The key of the idempotency record of a token
IdemKey(token) == keyPrefix \o token

IsIdemKey(k) == Len(k) >= Len(keyPrefix) /\ SubSeq(k, 1, Len(keyPrefix)) = keyPrefix

\* What a client receives when a stored response is written out verbatim
RecordReply(cached) ==
    [status |-> cached.status_code,
     headers |-> [k \in DOMAIN cached.headers |-> <<cached.headers[k]>>],
     body |-> cached.body]

\* What the client of request r has received
ReplyOf(r) == Reply(req[r].wr.w)

Is2xx(code) == code >= 200 /\ code < 300

\* Request r leaves the lookup with a record found without error
LookupHit(r) == req[r].pc = "lookup" /\ req'[r].lookup = "hit"

\* C1: when store.Get returns a record without error for a POST, PUT or
\* DELETE request with a non-empty key, the request is over in that step:
\* the client has received the record's status code, headers and body, the
\* handler was not invoked, and the database, the cache entries and the
\* published events are as they were.
C1_HitReplaysWithoutHandler ==
    [][\A r \in Reqs :
          LookupHit(r) =>
             /\ isMutatingMethod(req[r].method) /\ req[r].token # <<>>
             /\ req'[r].pc = "done"
             /\ req'[r].invoked = 0
             /\ ~req'[r].committed
             /\ Reply(req'[r].wr.w)
                  = RecordReply(redis[IdemKey(req[r].token)].val.v)
             /\ reviews' = reviews
             /\ nextID' = nextID
             /\ events' = events
             /\ redis' = redis]_vars

\* A replay of a 201 while the table holds the one review and a cached
\* review list of the product is still in the store
C1_Witness ==
    \E r \in Done :
        /\ req[r].lookup = "hit"
        /\ ReplyOf(r).status = StatusCreated
        /\ "Content-Type" \in DOMAIN ReplyOf(r).headers
        /\ Cardinality(DOMAIN reviews) = 1
        /\ Len(events) = 1

\* Request b carries the key of the mutating request a, whose handler ran
\* and answered 2xx, and b arrived when a was over for less than the TTL
Retry(a, b) ==
    /\ a \in Done /\ b \in Done /\ a # b
    /\ isMutatingMethod(req[a].method) /\ isMutatingMethod(req[b].method)
    /\ req[a].token # <<>> /\ req[b].token = req[a].token
    /\ req[a].invoked = 1
    /\ Is2xx(ReplyOf(a).status)
    /\ a \in DOMAIN req[b].pred
    /\ req[b].pred[a] < idempotencyTTL

SameStatusAndBody(a, b) ==
    /\ ReplyOf(b).status = ReplyOf(a).status
    /\ ReplyOf(b).body = ReplyOf(a).body

\* C2 as stated: a second request with the key of a request whose handler
\* answered 2xx, sent after that answer and within the TTL, receives the
\* same status code and body, and the handler ran once for the two.
C2_Original ==
    \A a \in Reqs, b \in Reqs :
        Retry(a, b) =>
            /\ SameStatusAndBody(a, b)
            /\ req[a].invoked + req[b].invoked = 1

\* C2 (amended): when the second request's lookup returns the record that
\* the first request stored, the second request receives the status code
\* and the body of the first request's 2xx response, the first request's
\* store.Set had succeeded, and the handler ran once for the two.
C2_RetryReplaysStoredResponse ==
    \A a \in Reqs, b \in Reqs :
        (req[b].lookup = "hit" /\ req[b].hitBy = a /\ Retry(a, b)) =>
            /\ SameStatusAndBody(a, b)
            /\ req[a].setRes = "ok"
            /\ req[a].invoked + req[b].invoked = 1

\* A create answered 201 with id 1 and its retry answered from the record:
\* one review, one id consumed
C2_Witness ==
    \E a \in Reqs, b \in Reqs :
        /\ Retry(a, b) /\ req[b].lookup = "hit" /\ req[b].hitBy = a
        /\ ReplyOf(a).status = StatusCreated
        /\ ReplyOf(b).body # <<>>
        /\ nextID = 2
        /\ DOMAIN reviews = {1}

\* Request b arrived while the record that request a stored for their key
\* was live
ArrivedWhileLive(a, b) ==
    /\ Retry(a, b)
    /\ req[a].setRes = "ok"

\* C3 as stated: every mutating request that carries the key of a live
\* record receives the response that is stored and creates no entity.
C3_Original ==
    \A a \in Reqs, b \in Reqs :
        ArrivedWhileLive(a, b) =>
            /\ ReplyOf(b) = ReplyOf(a)
            /\ ~req[b].committed

\* C3 (amended): every request whose lookup returns a live record without
\* error receives the status, the headers and the body of the response the
\* record was taken from, as did every earlier request that was answered
\* from that record; the step leaves the record as it is and creates no
\* entity.
C3_ReplaysIdenticalRecordUnchanged ==
    [][\A b \in Reqs :
          LookupHit(b) =>
             LET a == req'[b].hitBy
                 key == IdemKey(req[b].token)
             IN  /\ a \in Done
                 /\ Reply(req'[b].wr.w) = ReplyOf(a)
                 /\ \A c \in Done :
                       (req[c].lookup = "hit" /\ req[c].hitBy = a)
                          => ReplyOf(c) = Reply(req'[b].wr.w)
                 /\ key \in DOMAIN redis'
                 /\ redis'[key] = redis[key]
                 /\ reviews' = reviews
                 /\ nextID' = nextID]_vars

\* A replay whose record is still the one its writer stored
C3_Witness ==
    \E b \in Done :
        /\ req[b].lookup = "hit"
        /\ IdemKey(req[b].token) \in DOMAIN redis
        /\ redis[IdemKey(req[b].token)].by = req[b].hitBy
        /\ ReplyOf(b) = ReplyOf(req[b].hitBy)
        /\ ReplyOf(b).headers # EmptyMap

\* C4: every decodable record of the idempotency store holds a status code
\* in 200..299; a request is at store.Set only with a recorded status code
\* in that range, after its handler has returned, and a request that is over
\* with another status code has made no call of store.Set.
C4_StoredRecordsAre2xx ==
    /\ \A k \in DOMAIN redis :
          (IsIdemKey(k) /\ redis[k].val.t = "obj")
             => Is2xx(redis[k].val.v.status_code)
    /\ \A r \in Reqs :
          /\ req[r].pc = "writeback"
                => /\ req[r].wr.recording
                   /\ Is2xx(req[r].wr.statusCode)
                   /\ req[r].invoked = 1
          /\ (r \in Done /\ req[r].setRes # "none")
                => Is2xx(ReplyOf(r).status)
          /\ (r \in Done /\ ~Is2xx(ReplyOf(r).status))
                => req[r].setRes = "none"

\* The store holds a 201 under a key, and a request with that key whose
\* handler answered 4xx or 5xx is over
C4_Witness ==
    /\ \E k \in DOMAIN redis :
          /\ IsIdemKey(k) /\ redis[k].val.t = "obj"
          /\ redis[k].val.v.status_code = StatusCreated
    /\ \E r \in Done :
          /\ req[r].token # <<>> /\ isMutatingMethod(req[r].method)
          /\ req[r].invoked = 1
          /\ ReplyOf(r).status >= 400

\* No request other than a and b carries the key of a
NoOther(a, b) ==
    \A c \in Reqs \ {a, b} :
        req[c].pc = "idle" \/ req[c].token # req[a].token

\* Request b carries the key of the mutating request a and arrived when a
\* was over
Follows(a, b) ==
    /\ a \in Done /\ a # b
    /\ isMutatingMethod(req[a].method) /\ isMutatingMethod(req[b].method)
    /\ req[a].token # <<>> /\ req[b].token = req[a].token
    /\ a \in DOMAIN req[b].pred

\* C5: a mutating request with a key whose handler answers 400 makes no
\* call of store.Set and leaves no record of its own; when it is the only
\* request that has carried the key, the key has no record, and a following
\* request with the key invokes the handler; when that request is answered
\* 2xx and its store.Set succeeds, the record of the key is that response.
C5_ValidationFailureNotStored ==
    \A a \in Done :
        (/\ isMutatingMethod(req[a].method) /\ req[a].token # <<>>
         /\ req[a].invoked = 1
         /\ ReplyOf(a).status = StatusBadRequest)
        => /\ req[a].setRes = "none"
           /\ \A k \in DOMAIN redis : IsIdemKey(k) => redis[k].by # a
           /\ \A b \in Reqs : req[b].hitBy # a
           /\ NoOther(a, a) => IdemKey(req[a].token) \notin DOMAIN redis
           /\ \A b \in Reqs :
                 (Follows(a, b) /\ NoOther(a, b) /\ req[b].pc # "lookup")
                 => /\ req[b].invoked = 1
                    /\ req[b].lookup # "hit"
                    /\ (b \in Done /\ req[b].setRes = "ok"
                         /\ IdemKey(req[b].token) \in DOMAIN redis
                         /\ redis[IdemKey(req[b].token)].val.t = "obj")
                       => /\ redis[IdemKey(req[b].token)].by = b
                          /\ RecordReply(redis[IdemKey(req[b].token)].val.v)
                               = ReplyOf(b)

\* A create with rating 6 answered 400, then a create with the same key
\* answered 201, whose response is the record of the key
C5_Witness ==
    \E a \in Done, b \in Done :
        /\ Follows(a, b)
        /\ ReplyOf(a).status = StatusBadRequest
        /\ req[a].invoked = 1
        /\ ReplyOf(b).status = StatusCreated
        /\ IdemKey(req[b].token) \in DOMAIN redis
        /\ redis[IdemKey(req[b].token)].by = b
        /\ redis[IdemKey(req[b].token)].val.t = "obj"
        /\ RecordReply(redis[IdemKey(req[b].token)].val.v) = ReplyOf(b)

\* The middleware passes request r on untouched
Bypasses(r) ==
    /\ req[r].pc # "idle"
    /\ \/ req[r].method \notin {"POST", "PUT", "DELETE"}
       \/ req[r].token = <<>>

\* C6: a request whose method is not POST, PUT or DELETE, with or without a
\* key, and a POST, PUT or DELETE request with an empty key, is handed to
\* the handler with the original ResponseWriter; it is never at store.Get or
\* store.Set, is never answered from a record and writes no record.
C6_BypassTouchesNoRecord ==
    \A r \in Reqs :
        Bypasses(r) =>
            /\ req[r].pc \notin {"lookup", "writeback"}
            /\ req[r].invoked = 1
            /\ ~req[r].wr.recording
            /\ req[r].lookup = "none"
            /\ req[r].hitBy = 0
            /\ req[r].setRes = "none"
            /\ \A k \in DOMAIN redis : IsIdemKey(k) => redis[k].by # r

\* A GET that carries a key with a live record, answered 200 by its handler
C6_Witness ==
    \E r \in Done :
        /\ req[r].method = "GET"
        /\ req[r].token # <<>>
        /\ IdemKey(req[r].token) \in DOMAIN redis
        /\ redis[IdemKey(req[r].token)].val.t = "obj"
        /\ ReplyOf(r).status = StatusOK

\* C7: a request whose store.Get failed, by a store error or by a record
\* that does not decode, has its handler invoked once behind the recorder;
\* when it is over, its reply is what the recorder captured from the
\* handler, with none of the handler's statuses replaced by an error status
\* of the middleware, and store.Set was called exactly when the status code
\* is 2xx.
C7_LookupErrorFailsOpen ==
    \A r \in Reqs :
        req[r].lookup = "err" =>
            /\ req[r].invoked = 1
            /\ req[r].wr.recording
            /\ req[r].pc # "lookup"
            /\ r \in Done =>
                  /\ ReplyOf(r).status = req[r].wr.statusCode
                  /\ ReplyOf(r).body = req[r].wr.body
                  /\ ReplyOf(r).status \in
                        {StatusOK, StatusCreated, StatusNoContent,
                         StatusBadRequest, StatusNotFound}
                  /\ Is2xx(ReplyOf(r).status) <=> req[r].setRes # "none"

\* A create whose lookup met a damaged record, answered 201 and stored
C7_Witness ==
    \E r \in Done :
        /\ req[r].lookup = "err"
        /\ inject = "corrupt"
        /\ ReplyOf(r).status = StatusCreated
        /\ req[r].setRes = "ok"
        /\ redis[IdemKey(req[r].token)].by = r

\* Request r leaves store.Set with an error
WriteBackFails(r) == req[r].pc = "writeback" /\ req'[r].setRes = "err"

\* C8: when store.Set fails, the request is over with the reply the handler
\* produced, status, headers and body, and the store, the database and the
\* events are as they were; no request is ever answered from a record of
\* that request, and when no third request carries the key, a later request
\* with the key invokes the handler.
C8_WriteBackFailureIsSilent ==
    [][/\ \A r \in Reqs :
            WriteBackFails(r) =>
               /\ req'[r].pc = "done"
               /\ Reply(req'[r].wr.w) = Reply(req[r].wr.w)
               /\ Is2xx(Reply(req'[r].wr.w).status)
               /\ redis' = redis
               /\ UNCHANGED <<reviews, nextID, events>>
       /\ \A a \in Reqs, b \in Reqs :
            (req'[a].setRes = "err")
            => /\ req'[b].hitBy # a
               /\ (Follows(a, b)' /\ NoOther(a, b)' /\ req'[b].pc # "lookup")
                     => req'[b].invoked = 1 /\ req'[b].lookup # "hit"]_vars

\* A create answered 201 whose store.Set failed, and its retry with the same
\* key, which created a second review
C8_Witness ==
    \E a \in Done, b \in Done :
        /\ Follows(a, b)
        /\ req[a].setRes = "err"
        /\ ReplyOf(a).status = StatusCreated
        /\ req[b].invoked = 1
        /\ ReplyOf(b).status = StatusCreated
        /\ DOMAIN reviews = {1, 2}

\* C9 as stated: after a successful write of a record for a key, a request
\* with the key that arrives before the TTL has elapsed is replayed, and one
\* that arrives later finds no record, invokes the handler and, on 2xx,
\* stores a record.
C9_Original ==
    \A a \in Done, b \in Done :
        (Follows(a, b) /\ NoOther(a, b) /\ req[a].setRes = "ok")
        => IF req[b].pred[a] < idempotencyTTL
           THEN req[b].lookup = "hit"
           ELSE /\ req[b].lookup = "miss"
                /\ req[b].invoked = 1
                /\ Is2xx(ReplyOf(b).status) => req[b].setRes = "ok"

\* The requests whose record for the key of r is younger than the TTL
YoungWriters(r) ==
    {a \in Done : /\ req[a].token = req[r].token
                  /\ req[a].setRes = "ok"
                  /\ req[a].since < idempotencyTTL}

\* C9 (amended): store.Set writes the record with idempotencyTTL, and every
\* record is gone when that time has elapsed since its write; a request
\* whose store.Get returns without error is replayed exactly when a record
\* of its key was written less than the TTL ago, from such a record, and
\* otherwise invokes the handler as a new request; a successful store.Set
\* of a 2xx response makes that request the writer of a record with the
\* full TTL.
C9_RecordLivesForTTL ==
    [][/\ \A k \in DOMAIN redis' :
            IsIdemKey(k) =>
               /\ redis'[k].ttl >= 1
               /\ redis'[k].ttl + redis'[k].age = idempotencyTTL
       /\ \A r \in Reqs :
            /\ (req[r].pc = "writeback" /\ req'[r].setRes = "ok")
                  => /\ redis'[IdemKey(req[r].token)].ttl = idempotencyTTL
                     /\ redis'[IdemKey(req[r].token)].age = 0
                     /\ redis'[IdemKey(req[r].token)].by = r
            /\ (req[r].pc = "lookup" /\ req'[r].lookup = "hit")
                  => req'[r].hitBy \in YoungWriters(r)
            /\ (req[r].pc = "lookup" /\ req'[r].lookup = "miss")
                  => /\ YoungWriters(r) = {}
                     /\ req'[r].pc = "handler"
                     /\ req'[r].invoked = 1]_vars

\* A create stored under a key, a minute later a create with the same key,
\* which found no record, created a second review and is the writer of the
\* record now in the store
C9_Witness ==
    \E a \in Done, b \in Done :
        /\ Follows(a, b)
        /\ req[a].setRes = "ok"
        /\ req[b].pred[a] >= idempotencyTTL
        /\ req[b].lookup = "miss"
        /\ req[b].setRes = "ok"
        /\ ReplyOf(b).status = StatusCreated
        /\ IdemKey(req[b].token) \in DOMAIN redis
        /\ redis[IdemKey(req[b].token)].by = b
        /\ redis[IdemKey(req[b].token)].ttl = idempotencyTTL
        /\ DOMAIN reviews = {1, 2}

\* The entries of product P that the store holds
CachedFor(s, productID) ==
    {k \in DOMAIN s : \/ Match(reviewsPatternKey(productID), k)
                      \/ k = ratingKey(productID)}

\* C10: when InvalidateProductCache(P) has returned and none of its Redis
\* calls failed, GetReviews(P, l, o) reports a miss for every page (l, o) and
\* GetRating(P) reports found = false, however many SCAN calls the loop
\* made; the store holds no entry of P.
C10_InvalidateProductCacheClears ==
    (svc.pc = "returned" /\ ~svc.failed) =>
        /\ \A page \in CachePages :
              LET got == GetReviews(redis, svc.productID, page.limit,
                                    page.offset, FALSE)
              IN  ~got.err /\ got.reviews.isNil
        /\ ~GetRating(redis, svc.productID, FALSE).found
        /\ ~GetRating(redis, svc.productID, FALSE).err
        /\ CachedFor(redis, svc.productID) = {}

\* InvalidateProductCache(1) has returned without error after three SCAN
\* calls, and the entries of product 12 are still in the store
C10_Witness ==
    /\ svc.pc = "returned" /\ ~svc.failed
    /\ svc.productID = 1
    /\ svc.scans >= 3
    /\ CachedFor(redis, 12) # {}
    /\ GetRating(redis, 12, FALSE).found

\* What GetRating returns for a rating key that is not in the store
RatingMiss == [err |-> FALSE, found |-> FALSE, rating |-> NilPtr]

\* C11: after a SetRating(P, r) that did not fail, GetRating(P) returns
\* (r, found = true), for r nil as for r a number (0 included); after an
\* InvalidateRating(P) that did not fail, and for every product whose
\* rating key has expired or was never set, it returns (nil, found = false).
\* In every state found tells an absent key from a stored one and the nil
\* pointer tells a stored null from a stored number.
C11_GetRatingTellsThreeStates ==
    /\ (svc.op = "SetRating" /\ ~svc.failed) =>
          GetRating(redis, svc.productID, FALSE)
             = [err |-> FALSE, found |-> TRUE, rating |-> svc.rating]
    /\ (svc.op = "InvalidateRating" /\ ~svc.failed) =>
          GetRating(redis, svc.productID, FALSE) = RatingMiss
    /\ svc.op = "Tick" =>
          \A p \in svc.expired : GetRating(redis, p, FALSE) = RatingMiss
    /\ \A p \in CacheProducts :
          LET got == GetRating(redis, p, FALSE) IN
          /\ ~got.err
          /\ got.found <=> RedisHas(redis, ratingKey(p))
          /\ ~got.found => got.rating.isNil
          /\ (got.found /\ got.rating.isNil)
                <=> (RedisHas(redis, ratingKey(p))
                       /\ redis[ratingKey(p)].val = MarshalRating(NilPtr))
          /\ (got.found /\ ~got.rating.isNil)
                => redis[ratingKey(p)].val = MarshalRating(got.rating)

\* The rating entry of product 1 has just expired while product 12 holds an
\* explicit null, written by SetRating(12, nil): the reads differ in found
C11_Witness ==
    /\ svc.op = "Tick" /\ svc.expired = {1}
    /\ GetRating(redis, 1, FALSE) = RatingMiss
    /\ GetRating(redis, 12, FALSE)
          = [err |-> FALSE, found |-> TRUE, rating |-> NilPtr]

\* The pages of product P that the store holds
PagesOf(s, productID) ==
    {k \in DOMAIN s : Match(reviewsPatternKey(productID), k)}

\* Request r leaves InvalidateProductCache
InvalidationEnds(r) == req[r].pc = "rating" /\ req'[r].pc = "publish"

\* C12 as stated: whenever a committed create, update or delete of a review
\* of P leaves InvalidateProductCache, the store holds no page of P.
C12_Original ==
    [][\A r \in Reqs :
          InvalidationEnds(r) => PagesOf(redis', req[r].prodID) = {}]_vars

\* C12: with no other request in flight, when a committed create, update or
\* delete of a review of P leaves InvalidateProductCache and no cache call
\* has failed, the store holds no page and no rating of P, so that
\* GetReviews(P, limit, offset) misses; a GetProductReviews that finds no
\* entry under its key reads the database, and the list it answers with is
\* the list the database holds.
C12_CommittedMutationInvalidates ==
    [][\A r \in Reqs :
          /\ (InvalidationEnds(r) /\ inject' # "cache") =>
                /\ req[r].committed
                /\ PagesOf(redis', req[r].prodID) = {}
                /\ ~RedisHas(redis', ratingKey(req[r].prodID))
                /\ \A l \in LimitInputs, o \in OffsetInputs :
                      LET got == GetReviews(redis', req[r].prodID,
                                            NormalLimit(l), NormalOffset(o),
                                            FALSE)
                      IN  ~got.err /\ got.reviews.isNil
          /\ (/\ req[r].pc = "handler" /\ req[r].op = "GetProductReviews"
              /\ req'[r].pc # "handler"
              /\ ~parseID(req[r].pid).err
              /\ ~RedisHas(redis, reviewsKey(parseID(req[r].pid).v,
                                             NormalLimit(req[r].limit),
                                             NormalOffset(req[r].offset))))
                => req'[r].pc = "read"
          /\ (req[r].pc = "fill" /\ req'[r].pc = "done") =>
                /\ ReplyOf(r)'.status = StatusOK
                /\ ReplyOf(r)'.body =
                      <<ReviewsResponse(
                          ListByProductID(reviews', req[r].prodID,
                                          NormalLimit(req[r].limit),
                                          NormalOffset(req[r].offset)))>>
      ]_vars

\* A committed mutation of product 1 has left InvalidateProductCache: the
\* page that was cached when it committed is gone
C12_Witness ==
    \E r \in Reqs :
        /\ req[r].pc = "publish" /\ req[r].committed /\ req[r].had
        /\ inject # "cache"
        /\ PagesOf(redis, req[r].prodID) = {}

\* A cache call of request r fails in this step
CacheCallFails(r) ==
    inject = "none" /\ inject' = "cache" /\ req'[r] # req[r]

\* What the handlers answer from the database alone
NoCacheReviews(rq, rv) ==
    <<ReviewsResponse(ListByProductID(rv, rq.prodID, NormalLimit(rq.limit),
                                      NormalOffset(rq.offset)))>>

NoCacheProduct(rq, rv) ==
    <<productToResponse(rq.prodID, AverageRating(rv, rq.prodID))>>

\* C13: an error of a cache call never ends a request and writes no
\* response: after a failed GetReviews or GetRating the handler reads the
\* database as on a miss, after a failed SCAN or DEL of
\* InvalidateProductCache the mutating handler goes on to its event and its
\* success response, and a GetProductReviews or GetProductById that has read
\* the database answers 200 with the database's result whether SetReviews or
\* SetRating fails or not. No response of a request whose cache call failed
\* is a 5xx.
C13_CacheErrorsLeaveResponse ==
    [][\A r \in Reqs :
          /\ (CacheCallFails(r) /\ req[r].pc = "handler") =>
                /\ req'[r].pc \in {"read", "fetch"}
                /\ req'[r].wr = req[r].wr
                /\ ~req'[r].ratingCached
          /\ (CacheCallFails(r) /\ req[r].pc \in {"scan", "del", "rating"}) =>
                /\ req'[r].pc \in {"rating", "publish"}
                /\ req'[r].wr = req[r].wr
                /\ req'[r].committed
          /\ (req[r].pc = "publish" /\ req'[r].pc # "publish") =>
                req'[r].wr = SuccessResponse(req[r])
          /\ (req[r].pc = "fill" /\ req'[r].pc = "done") =>
                /\ ReplyOf(r)'.status = StatusOK
                /\ ReplyOf(r)'.body = NoCacheReviews(req[r], reviews)
          /\ (req[r].pc = "answer" /\ ~req[r].ratingCached
                                   /\ req'[r].pc = "done") =>
                /\ ReplyOf(r)'.status = StatusOK
                /\ ReplyOf(r)'.body = NoCacheProduct(req[r], reviews)
          /\ (CacheCallFails(r) /\ req'[r].pc = "done") =>
                ReplyOf(r)'.status < 500
      ]_vars

\* SetRating has failed for a GetProductById of a product without reviews:
\* the client has its 200 with no rating and the store holds nothing
C13_Witness ==
    /\ inject = "cache"
    /\ redis = <<>>
    /\ \E r \in Reqs :
          /\ req[r].pc = "done"
          /\ ReplyOf(r).status = StatusOK
          /\ ReplyOf(r).body = <<productToResponse(1, NilPtr)>>

\* The key GetProductReviews of request rq reads and writes
PageKey(rq) ==
    reviewsKey(parseID(rq.pid).v, NormalLimit(rq.limit),
               NormalOffset(rq.offset))

Undecodable(s, k) == RedisHas(s, k) /\ s[k].val.t = "garbage"

\* C14: a GetProductReviews whose page entry, and a GetProductById whose
\* rating entry, holds bytes that do not decode goes on exactly as it does
\* when the entry is absent: to the database, with no response written and
\* no rating taken from the cache. A GetProductReviews or GetProductById
\* that has read the database answers 200 with the database's result and,
\* when its SetReviews or SetRating does not fail, leaves under the key the
\* serialization of that result.
C14_MalformedEntryIsAMiss ==
    [][\A r \in Reqs :
          /\ (/\ req[r].pc = "handler" /\ req'[r] # req[r]
              /\ req[r].op = "GetProductReviews"
              /\ ~parseID(req[r].pid).err
              /\ Undecodable(redis, PageKey(req[r]))) =>
                req'[r] = Merge(req[r], [pc |-> "read",
                                         prodID |-> parseID(req[r].pid).v])
          /\ (/\ req[r].pc = "handler" /\ req'[r] # req[r]
              /\ req[r].op = "GetProductById"
              /\ ~parseID(req[r].pid).err
              /\ Undecodable(redis, ratingKey(parseID(req[r].pid).v))) =>
                req'[r] = Merge(req[r], [pc |-> "fetch",
                                         prodID |-> parseID(req[r].pid).v])
          /\ (req[r].pc = "fill" /\ req'[r].pc = "done"
                                 /\ inject' = inject) =>
                /\ ReplyOf(r)'.status = StatusOK
                /\ ReplyOf(r)'.body = NoCacheReviews(req[r], reviews)
                /\ redis'[PageKey(req[r])].val =
                      MarshalReviews(ListByProductID(reviews, req[r].prodID,
                                         NormalLimit(req[r].limit),
                                         NormalOffset(req[r].offset)))
          /\ (req[r].pc = "answer" /\ ~req[r].ratingCached
                                   /\ req'[r].pc = "done"
                                   /\ inject' = inject) =>
                /\ ReplyOf(r)'.status = StatusOK
                /\ ReplyOf(r)'.body = NoCacheProduct(req[r], reviews)
                /\ redis'[ratingKey(req[r].prodID)].val =
                      MarshalRating(AverageRating(reviews, req[r].prodID))
      ]_vars

\* The page that request 1 cached was corrupted and request 2 has replaced
\* it: nothing else removes an entry when no mutation has committed and no
\* time has passed
C14_Witness ==
    /\ inject = "corrupt"
    /\ nextID = 1
    /\ DOMAIN redis = {reviewsKey(1, defaultReviewLimit, 0)}
    /\ redis[reviewsKey(1, defaultReviewLimit, 0)].val = JSONNull
    /\ redis[reviewsKey(1, defaultReviewLimit, 0)].by = 2
    /\ req[2].pc = "done"
    /\ ReplyOf(2).status = StatusOK

\* The callers whose InvalidateProductCache has returned
Invalidated == {r \in Reqs : req[r].pc = "publish"}

\* The store without the entries of the products in P
Without(s, P) ==
    Restrict(s, DOMAIN s \ UNION {CachedFor(s, p) : p \in P})

\* C15: whenever every InvalidateProductCache that was entered has returned,
\* no Redis call having failed, the store is the store the callers started
\* on without the review-list entries and the rating entries of the products
\* invalidated, whatever the number of callers per product, their order and
\* the interleaving of their SCAN and DEL calls: a second invalidation of P
\* changes nothing, P then Q ends as Q then P, and concurrent invalidations
\* of P end with no entry of P.
C15_InvalidationConverges ==
    (\A r \in Reqs : req[r].pc \in {"idle", "publish"}) =>
        redis = Without(svc.start, {req[r].prodID : r \in Invalidated})

\* Two invalidations of product 1 have returned on a store that held the
\* page and the rating of product 1 and the page of product 12, which is
\* all that is left
C15_Witness ==
    /\ Invalidated = {1, 2}
    /\ req[1].prodID = 1 /\ req[2].prodID = 1
    /\ DOMAIN svc.start = RaceKeys
    /\ DOMAIN redis = {reviewsKey(12, defaultReviewLimit, 0)}

\* C16: every request whose store.Get found no record has had its handler
\* invoked, whatever other requests with the same key are doing: of two
\* requests with the same non-empty key that both missed, both have executed
\* the handler.
C16_MissesAllInvokeHandler ==
    \A a, b \in Reqs :
        (/\ a # b
         /\ req[a].token # <<>> /\ req[a].token = req[b].token
         /\ req[a].lookup = "miss" /\ req[b].lookup = "miss") =>
            req[a].invoked = 1 /\ req[b].invoked = 1

\* Two requests with the same key, neither over when the other arrived, both
\* missed, both committed a new review and both stored their response: with
\* no failure and no expiry each lookup came before either write-back
C16_Witness ==
    /\ inject = "none"
    /\ Cardinality(DOMAIN reviews) = 2
    /\ \E a, b \in Reqs :
          /\ a # b
          /\ req[a].token # <<>> /\ req[a].token = req[b].token
          /\ a \notin DOMAIN req[b].pred /\ b \notin DOMAIN req[a].pred
          /\ req[a].lookup = "miss" /\ req[b].lookup = "miss"
          /\ req[a].committed /\ req[b].committed
          /\ req[a].setRes = "ok" /\ req[b].setRes = "ok"

\* Requests a and b carry the same non-empty key and the store.Set of each
\* has succeeded
BothStored(a, b) ==
    /\ a # b
    /\ req[a].token # <<>> /\ req[a].token = req[b].token
    /\ req[a].setRes = "ok" /\ req[b].setRes = "ok"

\* Request a was over, its record older than the TTL, when b arrived
ExpiredBetween(a, b) ==
    a \in DOMAIN req[b].pred /\ req[b].pred[a] >= idempotencyTTL

\* C17 as stated: of two requests with the same key whose store.Set has
\* succeeded, one was over and its record had expired when the other
\* arrived.
C17_Original ==
    \A a, b \in Reqs :
        BothStored(a, b) => ExpiredBetween(a, b) \/ ExpiredBetween(b, a)

\* C17 (amended): a request stores a record only after its own store.Get
\* has found none or has failed; of two requests with the same key whose
\* store.Set has succeeded, where the first was over when the second arrived
\* and the second's store.Get did not fail, the first's record had expired
\* when the second arrived.
C17_StoredOncePerLiveRecord ==
    /\ \A r \in Reqs :
          req[r].setRes # "none" => req[r].lookup \in {"miss", "err"}
    /\ \A a, b \in Reqs :
          (/\ BothStored(a, b)
           /\ a \in DOMAIN req[b].pred
           /\ req[b].lookup = "miss") => ExpiredBetween(a, b)

\* The record of the first request expired, and the second request with the
\* same key missed and stored a record of its own
C17_Witness ==
    \E a, b \in Reqs :
        /\ BothStored(a, b)
        /\ req[b].lookup = "miss"
        /\ ExpiredBetween(a, b)

\* C18 as stated: a request with a non-empty key whose context was
\* cancelled while it was in flight, whose handler has committed and has
\* answered 2xx, is over with its record in the store.
C18_Original ==
    \A r \in Done :
        (/\ req[r].cancelled
         /\ req[r].token # <<>>
         /\ req[r].committed
         /\ Is2xx(ReplyOf(r).status)) =>
            /\ req[r].setRes = "ok"
            /\ RedisHas(redis, IdemKey(req[r].token))

\* The method whose handler publishes events of this type, and the status
\* of its success response
EventTypes == {"review.created", "review.updated", "review.deleted"}

MethodFor(eventType) ==
    CASE eventType = "review.created" -> "POST"
      [] eventType = "review.updated" -> "PUT"
      [] eventType = "review.deleted" -> "DELETE"

SuccessStatus(method) ==
    CASE method = "POST"   -> StatusCreated
      [] method = "PUT"    -> StatusOK
      [] method = "DELETE" -> StatusNoContent

\* C19: a request has called Publish only when its handler ran once and its
\* transaction committed, never when it was answered from a stored record
\* or failed before the commit; the events published are, type by type, one
\* for each request of the matching method whose Publish succeeded (no
\* second call, no retry after an error); and the request that called
\* Publish has its 201, 200 or 204 whether the call succeeded or not.
C19_PublishAtMostOnceAfterCommit ==
    /\ \A r \in Reqs :
          req[r].published # "none" =>
             /\ req[r].committed
             /\ req[r].invoked = 1
             /\ req[r].lookup # "hit"
             /\ req[r].pc \in {"writeback", "done"}
             /\ req[r].wr.w.status = SuccessStatus(req[r].method)
    /\ \A r \in Reqs :
          (req[r].lookup = "hit" \/ (r \in Done /\ ~req[r].committed)) =>
             req[r].published = "none"
    /\ \A t \in EventTypes :
          Cardinality({i \in DOMAIN events : events[i].event_type = t}) =
          Cardinality({r \in Reqs : /\ req[r].published = "ok"
                                     /\ req[r].method = MethodFor(t)})

\* The Publish of a committed create has failed: no event is out and the
\* client has its 201
C19_Witness ==
    /\ events = <<>>
    /\ \E r \in Done :
          /\ req[r].published = "err"
          /\ req[r].committed
          /\ ReplyOf(r).status = StatusCreated

\* The requests that run their handler behind the responseRecorder
Recorded == {r \in Reqs : req[r].lookup \in {"miss", "err"}}

\* C20: a request behind the recorder is in its handler with nothing
\* committed, invalidated, published, written or stored; or in
\* InvalidateProductCache with its transaction committed and nothing
\* published, written or stored; or at Publish with the invalidation over
\* and nothing written or stored; or at store.Set with its handler returned, its 2xx
\* recorded and Publish called; or over, store.Set being the last call
\* before the middleware returns. A record in the store was written by a
\* request whose handler had returned.
C20_CommitInvalidatePublishStore ==
    /\ \A r \in Recorded :
          /\ req[r].pc = "handler" =>
                /\ ~req[r].committed /\ req[r].published = "none"
                /\ req[r].setRes = "none" /\ ~req[r].wr.w.wroteHeader
          /\ req[r].pc \in {"scan", "del", "rating"} =>
                /\ req[r].committed /\ req[r].published = "none"
                /\ req[r].setRes = "none" /\ ~req[r].wr.w.wroteHeader
          /\ req[r].pc = "publish" =>
                /\ req[r].committed /\ req[r].loop.st = "end"
                /\ req[r].published = "none"
                /\ req[r].setRes = "none" /\ ~req[r].wr.w.wroteHeader
          /\ req[r].pc = "writeback" =>
                /\ Is2xx(req[r].wr.statusCode)
                /\ req[r].committed /\ req[r].published # "none"
                /\ req[r].setRes = "none"
          /\ req[r].setRes # "none" =>
                /\ req[r].pc = "done"
                /\ req[r].committed /\ req[r].published # "none"
          /\ req[r].pc \in {"handler", "scan", "del", "rating", "publish",
                             "writeback", "done"}
    /\ \A k \in DOMAIN redis :
          (IsIdemKey(k) /\ redis[k].val.t # "garbage") =>
             /\ redis[k].by \in Done
             /\ req[redis[k].by].setRes = "ok"

\* A create has committed, invalidated and published, its handler has
\* returned 201 into the recorder, and the middleware has not yet stored
\* the record
C20_Witness ==
    \E r \in Recorded :
        /\ req[r].pc = "writeback"
        /\ req[r].wr.statusCode = StatusCreated
        /\ req[r].committed
        /\ req[r].published = "ok"
        /\ Len(events) = 1
        /\ ~RedisHas(redis, IdemKey(req[r].token))

\* The store holds a record that decodes under the key of request r
RecordFor(r) ==
    /\ RedisHas(redis, IdemKey(req[r].token))
    /\ redis[IdemKey(req[r].token)].val.t = "obj"

\* C21: when the store.Get of a request succeeds and the store holds a
\* record under the request's token, whatever the method and the path of
\* the request that wrote it, the request is answered with that record's
\* status, headers and body and its handler is not invoked.
C21_RecordKeyedByTokenAlone ==
    [][\A r \in Reqs :
          (/\ req[r].pc = "lookup" /\ req'[r].pc # "lookup"
           /\ inject' = inject
           /\ RecordFor(r)) =>
             /\ req'[r].lookup = "hit"
             /\ req'[r].hitBy = redis[IdemKey(req[r].token)].by
             /\ req'[r].pc = "done"
             /\ req'[r].invoked = 0
             /\ ~req'[r].committed
             /\ ReplyOf(r)' = RecordReply(redis[IdemKey(req[r].token)].val.v)
      ]_vars

\* A DELETE of a review was answered with the 201 that a POST to the
\* product's reviews had stored under the same token; nothing was deleted
C21_Witness ==
    \E a, b \in Done :
        /\ req[b].lookup = "hit" /\ req[b].hitBy = a
        /\ req[a].method = "POST" /\ req[b].method = "DELETE"
        /\ ReplyOf(b).status = StatusCreated
        /\ req[b].invoked = 0
        /\ DOMAIN reviews = {1}

\* C22: the key SetReviews wrote for (productID, limit, offset) is the key
\* computed again for the same triple, and GetReviews for that triple reads
\* it: right after a SetReviews that did not fail, GetReviews returns the
\* list that was set. Every entry in the store is read back by GetReviews
\* for the triple whose key it is.
C22_SameTripleSameKey ==
    /\ (svc.op = "SetReviews" /\ ~svc.failed) =>
          /\ svc.key = reviewsKey(svc.productID, svc.page.limit,
                                  svc.page.offset)
          /\ RedisHas(redis, svc.key)
          /\ GetReviews(redis, svc.productID, svc.page.limit,
                        svc.page.offset, FALSE)
                = [err |-> FALSE, reviews |-> svc.list]
    /\ \A p \in KeyProducts, l \in KeyLimits, o \in KeyOffsets :
          RedisHas(redis, reviewsKey(p, l, o)) =>
             GetReviews(redis, p, l, o, FALSE).reviews =
                UnmarshalReviews(redis[reviewsKey(p, l, o)].val).val

\* SetReviews(11, 1, 0, list) has just returned on a store that holds the
\* page (1, 11, 0) with another list: GetReviews(11, 1, 0) returns the
\* list just set
C22_Witness ==
    /\ svc.op = "SetReviews" /\ ~svc.failed
    /\ svc.productID = 11 /\ svc.page = [limit |-> 1, offset |-> 0]
    /\ RedisHas(redis, reviewsKey(1, 11, 0))
    /\ UnmarshalReviews(redis[reviewsKey(1, 11, 0)].val).val # svc.list
    /\ GetReviews(redis, 11, 1, 0, FALSE).reviews = svc.list

\* C23: while fewer than DefaultTTL minutes have passed since the last
\* SetReviews (SetRating) that did not fail and no invalidation followed it,
\* GetReviews (GetRating) returns the value it wrote; once DefaultTTL minutes
\* have passed the read is a miss. Whatever was invalidated or not, no entry
\* is older than DefaultTTL minutes, and its age counts from its last Set.
C23_FoundUntilTTLElapses ==
    /\ svc.wroteReviews.set =>
          GetReviews(redis, TTLProduct, defaultReviewLimit, 0, FALSE) =
             IF svc.wroteReviews.at < DefaultTTL
             THEN [err |-> FALSE, reviews |-> svc.wroteReviews.list]
             ELSE [err |-> FALSE, reviews |-> NilSlice]
    /\ svc.wroteRating.set =>
          GetRating(redis, TTLProduct, FALSE) =
             IF svc.wroteRating.at < DefaultTTL
             THEN [err |-> FALSE, found |-> TRUE,
                   rating |-> svc.wroteRating.rating]
             ELSE RatingMiss
    /\ \A k \in DOMAIN redis :
          /\ redis[k].age < DefaultTTL
          /\ redis[k].age + redis[k].ttl = DefaultTTL

\* DefaultTTL minutes after SetRating the rating is a miss, while the page
\* that was set again a minute after the rating is still read
C23_Witness ==
    /\ svc.wroteRating.set /\ svc.wroteRating.at = DefaultTTL
    /\ GetRating(redis, TTLProduct, FALSE) = RatingMiss
    /\ svc.wroteReviews.set /\ svc.wroteReviews.at = DefaultTTL - 1
    /\ GetReviews(redis, TTLProduct, defaultReviewLimit, 0, FALSE).reviews
          = svc.wroteReviews.list

\* Two pointers are both nil or point at equal values
SamePtr(a, b) == a.isNil = b.isNil /\ (~a.isNil => a.v = b.v)

\* The average rating a product of a response body carries is that of the
\* reviews table
CarriesAverage(product, rv, id) ==
    /\ product.id = FormatInt(id)
    /\ SamePtr(product.average_rating,
               productToResponse(id, AverageRating(rv, id)).average_rating)

AnswersForMissingProduct(r) ==
    /\ req[r].op = "GetProductReviews"
    /\ req[r].pc \in {"handler", "read", "fill"}
    /\ req'[r].pc = "done"
    /\ ~parseID(req[r].pid).err
    /\ ~Exists(parseID(req[r].pid).v)

\* C25 as stated: every GetProductReviews for a product that is not in the
\* database is answered 404, whatever the cache holds.
C25_Original ==
    [][\A r \in Reqs :
          AnswersForMissingProduct(r) =>
             ReplyOf(r)'.status = StatusNotFound]_vars

\* C25: a GetProductReviews for a product that is not in the database is
\* answered 404 'Product not found' when Cache.GetReviews returns no list
\* (no entry, a stored null, an entry that does not decode, a failed call):
\* then the handler asks the database. When GetReviews returns a list the
\* handler answers 200 with that list and asks nothing.
C25_MissingProductIs404OnMiss ==
    [][\A r \in Reqs :
          AnswersForMissingProduct(r) =>
             LET page == GetReviews(redis, parseID(req[r].pid).v,
                                    NormalLimit(req[r].limit),
                                    NormalOffset(req[r].offset), FALSE)
             IN  IF req[r].pc = "handler"
                 THEN /\ ~page.err /\ ~page.reviews.isNil
                      /\ inject' = inject
                      /\ ReplyOf(r)'.status = StatusOK
                      /\ ReplyOf(r)'.body = <<ReviewsResponse(page.reviews)>>
                 ELSE /\ req[r].pc = "read"
                      /\ ReplyOf(r)'.status = StatusNotFound
                      /\ ReplyOf(r)'.body = <<[error |-> "Product not found"]>>
      ]_vars

\* The product was deleted while the cache holds its rating, and the
\* GetProductReviews that followed was answered 404
C25_Witness ==
    /\ products = {}
    /\ RedisHas(redis, ratingKey(1))
    /\ req[1].pc = "done" /\ req[1].op = "GetProductReviews"
    /\ ReplyOf(1).status = StatusNotFound

\* The requests answered with the status code
Answered(code) ==
    {r \in Reqs : req[r].pc = "done" /\ ReplyOf(r).status = code}

\* C26: of the DeleteProduct requests sent concurrently for one existing
\* product without reviews, at most one commits its DELETE and is answered
\* 204, and it is the only one answered 204; when all are over and no
\* database call has failed, exactly one has 204, every other has 404 and
\* the product is gone.
C26_OneDeleteWins ==
    /\ Cardinality({r \in Reqs : req[r].committed}) <= 1
    /\ Answered(StatusNoContent) = {r \in Done : req[r].committed}
    /\ (Answered(StatusNoContent) # {}) <=> (products = {})
    /\ (Done = Reqs /\ inject = "none") =>
          /\ Cardinality(Answered(StatusNoContent)) = 1
          /\ Answered(StatusNotFound) = Reqs \ Answered(StatusNoContent)
          /\ products = {}

\* Every request is over and no call has failed: request 2 has deleted
\* the product and request 1 was answered 404
C26_Witness ==
    /\ Done = Reqs /\ inject = "none"
    /\ Answered(StatusNoContent) = {2}
    /\ 1 \in Answered(StatusNotFound)

\* The reviews of a product
ReviewsOf(rv, id) == {j \in DOMAIN rv : rv[j].ProductID = id}

\* Request r, a DeleteProduct for a product that is in the table, gets its
\* response in this step, in which no call fails
DeleteProductEnds(r) ==
    /\ req[r].op = "DeleteProduct"
    /\ req[r].pc \in {"hasReviews", "delete", "commit"}
    /\ req'[r].pc = "done"
    /\ Exists(req[r].prodID)
    /\ inject' = inject

\* C27: for the client that waits for each response, a DeleteProduct of a
\* product with at least one review is answered 409 and changes neither
\* table; a DeleteProduct of a product with no review (none was created,
\* or each was deleted through DeleteProductReview) is answered 204 and
\* the product is gone from the table.
C27_ConflictWhileReviewsExist ==
    [][\A r \in Reqs :
          DeleteProductEnds(r) =>
             IF ReviewsOf(reviews, req[r].prodID) # {}
             THEN /\ ReplyOf(r)'.status = StatusConflict
                  /\ ReplyOf(r)'.body =
                        <<[error |->
                             "Cannot delete product with existing reviews"]>>
                  /\ UNCHANGED <<products, reviews, nextID>>
             ELSE /\ ReplyOf(r)'.status = StatusNoContent
                  /\ products' = products \ {req[r].prodID}
                  /\ reviews' = reviews
      ]_vars

\* A review was created and deleted through the handlers, both events are
\* published, and the DeleteProduct that followed was answered 204
C27_Witness ==
    /\ Len(events) = 2
    /\ events[1].event_type = "review.created"
    /\ events[2].event_type = "review.deleted"
    /\ reviews = [j \in {} |-> 0]
    /\ products = {}
    /\ req[1].pc = "done" /\ req[1].op = "DeleteProduct"
    /\ ReplyOf(1).status = StatusNoContent

\* The page of the reviews table a GetProductReviews with these query
\* parameters is to return
PageOf(rq, rv) ==
    ListByProductID(rv, parseID(rq.pid).v, NormalLimit(rq.limit),
                    NormalOffset(rq.offset))

\* C28: an absent limit is 10, a limit under 1 is 1, a limit over 100 is
\* 100, an absent or negative offset is 0. The cache is read and written
\* under the key of the normalised (limit, offset) only, the database is
\* asked for that page, and so every 200 carries the page of the normalised
\* parameters, read from the database or from the entry an earlier request
\* with the same normalised parameters left.
C28_PaginationNormalisedBeforeCacheAndQuery ==
    [][/\ NormalLimit(NilPtr) = 10
       /\ NormalLimit(Ptr(-5)) = 1 /\ NormalLimit(Ptr(0)) = 1
       /\ NormalLimit(Ptr(1)) = 1 /\ NormalLimit(Ptr(100)) = 100
       /\ NormalLimit(Ptr(1000)) = 100
       /\ NormalOffset(NilPtr) = 0 /\ NormalOffset(Ptr(-5)) = 0
       /\ NormalOffset(Ptr(0)) = 0 /\ NormalOffset(Ptr(1)) = 1
       /\ DOMAIN redis' \subseteq
             {reviewsKey(p, l, o) :
                 p \in CacheProducts, l \in {1, 10, 100}, o \in {0, 1}}
       /\ \A r \in Reqs :
            LET key == reviewsKey(parseID(req[r].pid).v,
                                  NormalLimit(req[r].limit),
                                  NormalOffset(req[r].offset))
            IN
            /\ (ReadCache(r) /\ inject' = inject) =>
                  IF RedisHas(redis, key)
                  THEN /\ req'[r].pc = "done"
                       /\ ReplyOf(r)'.status = StatusOK
                       /\ ReplyOf(r)'.body =
                             <<ReviewsResponse(
                                  UnmarshalReviews(redis[key].val).val)>>
                       /\ ReplyOf(r)'.body =
                             <<ReviewsResponse(PageOf(req[r], reviews))>>
                  ELSE req'[r].pc = "read"
            /\ (ReadDatabase(r) /\ inject' = inject) =>
                  req'[r].list = PageOf(req[r], reviews)
            /\ (FillCache(r) /\ inject' = inject) =>
                  /\ DOMAIN redis' = DOMAIN redis \cup {key}
                  /\ redis'[key].val = MarshalReviews(req[r].list)
                  /\ ReplyOf(r)'.status = StatusOK
                  /\ ReplyOf(r)'.body = <<ReviewsResponse(req[r].list)>>
      ]_vars

\* GetProductReviews with limit=1000 and offset=-5 was answered with both
\* reviews while the store holds the page under limit:100:offset:0 only
C28_Witness ==
    /\ inject = "none"
    /\ DOMAIN redis = {reviewsKey(1, 100, 0)}
    /\ req[1].pc = "done" /\ req[1].op = "GetProductReviews"
    /\ req[1].limit = Ptr(1000) /\ req[1].offset = Ptr(-5)
    /\ ReplyOf(1).status = StatusOK
    /\ Len(ReplyOf(1).body[1]) = 2

\* The first page of product 1 under the default limit
FirstPage == reviewsKey(1, defaultReviewLimit, 0)

\* The store holds a list under FirstPage that GetReviews returns, and it
\* is not the list of the reviews table
StalePage(s, rv) ==
    /\ RedisHas(s, FirstPage)
    /\ s[FirstPage].val.t = "arr"
    /\ UnmarshalReviews(s[FirstPage].val).val
          # ListByProductID(rv, 1, defaultReviewLimit, 0)

\* C29 as stated: when no request is in flight, a list cached for a page of
\* the product is the list the reviews table holds for that page.
C29_Original == (InFlight = {}) => ~StalePage(redis, reviews)

\* Request r takes the step of its Cache.SetReviews
Fills(r) == req[r].pc = "fill" /\ req'[r].pc # "fill"

\* Request r takes the step of its transaction, which commits
Commits(r) ==
    /\ req[r].pc = "handler" /\ req[r].op \in ReviewMutations
    /\ req'[r].committed

\* C29: while no call fails, (1) SetReviews stores the list its request
\* read from the database, whatever was committed since; (2) a cached list
\* comes to differ from the reviews table only when a mutation commits or
\* when a GetProductReviews that read before a commit stores its list; and
\* (3) when a mutation leaves InvalidateProductCache, any page of the
\* product still in the store was written by the other client during the
\* invalidation, none by an earlier request of the same client.
C29_StaleOnlyByOverlappingReader ==
    [][/\ \A r \in Reqs :
            Fills(r) =>
               /\ RedisHas(redis', PageKey(req[r]))
               /\ redis'[PageKey(req[r])].val.t
                     = MarshalReviews(req[r].list).t
               /\ redis'[PageKey(req[r])].val.v
                     = MarshalReviews(req[r].list).v
       /\ (~StalePage(redis, reviews) /\ StalePage(redis', reviews')) =>
             \E r \in Reqs :
                \/ Commits(r)
                \/ /\ Fills(r)
                   /\ req[r].list # ListByProductID(reviews, req[r].prodID,
                                         NormalLimit(req[r].limit),
                                         NormalOffset(req[r].offset))
       /\ \A r \in Reqs :
            InvalidationEnds(r) =>
               \A k \in PagesOf(redis', req[r].prodID) : redis'[k].by # r
      ]_vars

\* No request is in flight and the store holds, under the first page, a
\* list with one review that the reviews table no longer holds
C29_Witness ==
    /\ InFlight = {}
    /\ StalePage(redis, reviews)
    /\ Len(redis[FirstPage].val.v) = 1
    /\ inject = "none"

\* C30: while no call fails, the SetReviews of a GetProductReviews that
\* missed leaves under its key the list its own request read from the
\* database, written by it, also when the other client's request, having
\* missed on the same key, has stored its list there already (the later
\* SetReviews wins); the request is answered 200 with the list it read
\* itself, whatever the entry held; and the other request, its list and its
\* response included, is left as it was.
C30_LastWriteWins ==
    [][\A r \in Pair :
          Fills(r) =>
             LET key == PageKey(req[r]) IN
             /\ RedisHas(redis', key)
             /\ redis'[key].by = r
             /\ redis'[key].val.t = MarshalReviews(req[r].list).t
             /\ redis'[key].val.v = MarshalReviews(req[r].list).v
             /\ \A k \in DOMAIN redis' \ {key} :
                   RedisHas(redis, k) /\ redis'[k].by = redis[k].by
             /\ ReplyOf(r)'.status = StatusOK
             /\ ReplyOf(r)'.body = <<ReviewsResponse(req[r].list)>>
             /\ \A q \in Pair \ {r} : req'[q] = req[q]
      ]_vars

\* Both clients were answered by GetProductReviews, client 1 with the two
\* reviews of the table and client 2 with one review, and the first page
\* holds the one-review list written by client 2. No mutation can follow
\* the two that were published, so client 2's request read before the
\* second commit and stored after its invalidation, while a request of
\* client 1 that missed after that commit stored the two-review list in
\* between: both populated the key and the later write is the one left.
C30_Witness ==
    /\ InFlight = {}
    /\ inject = "none"
    /\ Len(events) = 2
    /\ \A r \in Pair : /\ req[r].op = "GetProductReviews"
                        /\ ReplyOf(r).status = StatusOK
    /\ Len(ReplyOf(1).body[1]) = 2
    /\ Len(ReplyOf(2).body[1]) = 1
    /\ RedisHas(redis, FirstPage)
    /\ redis[FirstPage].by = 2
    /\ redis[FirstPage].val.t = "arr"
    /\ ReplyOf(2).body = <<ReviewsResponse(
                               UnmarshalReviews(redis[FirstPage].val).val)>>

\* The SCAN or DEL that request r issues for its review lists fails
ReviewInvalidationFails(r) ==
    /\ req[r].pc \in {"scan", "del"}
    /\ inject = "none" /\ inject' = "cache"

\* C31: when the SCAN or the DEL of a mutation's InvalidateReviews fails,
\* the store is left as it was (the product's pages survive), nothing is
\* written to the response and the request goes on to InvalidateRating;
\* InvalidateRating, whatever happened before it, touches no page, removes
\* the product's rating key unless it fails itself, writes nothing to the
\* response and is followed by Publish; and the request then ends with the
\* success status of its method.
C31_InvalidationPartsIndependent ==
    [][\A r \in Reqs :
          /\ ReviewInvalidationFails(r) =>
                /\ req'[r].pc = "rating"
                /\ redis' = redis
                /\ req'[r].wr = req[r].wr
                /\ events' = events /\ reviews' = reviews
          /\ (req[r].pc = "rating" /\ req'[r].pc # "rating") =>
                /\ req'[r].pc = "publish"
                /\ req'[r].wr = req[r].wr
                /\ PagesOf(redis', req[r].prodID)
                      = PagesOf(redis, req[r].prodID)
                /\ inject' = inject =>
                      ~RedisHas(redis', ratingKey(req[r].prodID))
          /\ (req[r].pc = "publish" /\ req'[r].pc # "publish") =>
                /\ req'[r].pc = "done"
                /\ ReplyOf(r)'.status = SuccessStatus(req[r].method)
      ]_vars

\* The review-list invalidation of a committed mutation has failed: the
\* request is at InvalidateRating while the store still holds a page and
\* the rating key of its product
C31_Witness ==
    /\ req[1].pc = "rating" /\ req[1].committed
    /\ inject = "cache"
    /\ PagesOf(redis, req[1].prodID) # {}
    /\ RedisHas(redis, ratingKey(req[1].prodID))

\* The loop of deleteByPattern is at one of its two calls
InLoop == svc.pc \in {"scan", "del"}

\* C32: deleteByPattern starts its SCAN at cursor 0 (the whole keyspace);
\* a SCAN changes nothing in the store, ends the loop when it fails, is
\* followed by a DEL exactly when its batch is not empty (the batch holds
\* keys of the pattern only, so there is no DEL when no key matches), and
\* otherwise by the next SCAN when the cursor it returned is not 0, which
\* covers strictly less of the keyspace; a DEL has a batch that is not
\* empty, ends the loop when it fails, and else deletes its batch and is
\* followed by the next SCAN exactly when the cursor returned is not 0;
\* and the loop, once entered, is left.
C32_CursorLoopTerminates ==
    /\ [][/\ (~InLoop /\ svc'.pc = "scan") =>
                 /\ svc'.loop.zero /\ svc'.loop.rest = DOMAIN redis
                 /\ svc'.scans = 0 /\ ~svc'.failed
          /\ (svc.pc = "scan" /\ svc' # svc) =>
                 /\ redis' = redis
                 /\ svc'.scans = svc.scans + 1
                 /\ svc'.failed => svc'.pc = "rating"
                 /\ svc'.pc = "del" <=> svc'.loop.keys # {}
                 /\ svc'.loop.keys \subseteq PagesOf(redis, svc.productID)
                 /\ svc'.pc = "scan" =>
                       /\ svc'.loop.rest # {} /\ ~svc'.loop.zero
                       /\ svc'.loop.rest \subseteq svc.loop.rest
                       /\ svc'.loop.rest # svc.loop.rest
          /\ svc.pc = "del" =>
                 /\ svc.loop.keys # {}
                 /\ svc' # svc =>
                       /\ svc'.scans = svc.scans
                       /\ IF svc'.failed
                          THEN svc'.pc = "rating" /\ redis' = redis
                          ELSE /\ DOMAIN redis' = DOMAIN redis \ svc.loop.keys
                               /\ svc'.pc = IF svc.loop.rest # {}
                                            THEN "scan" ELSE "rating"
                               /\ svc'.pc = "scan" =>
                                     svc'.loop.rest = svc.loop.rest
         ]_vars
    /\ (InLoop ~> svc.pc = "rating")

\* The loop is at its DEL after its second SCAN, whose cursor is not 0
C32_Witness ==
    /\ svc.pc = "del" /\ svc.scans = 2
    /\ svc.loop.rest # {}
    /\ svc.loop.keys # {}

\* Request r, a review mutation in flight, takes a step
Moves(r) ==
    /\ req[r].op \in ReviewMutations
    /\ req[r].pc \notin {"idle", "done"}
    /\ req'[r] # req[r]

\* Request r, a review mutation, is over in this step
Ends(r) ==
    /\ req[r].op \in ReviewMutations
    /\ req[r].pc \notin {"idle", "done"} /\ req'[r].pc = "done"

\* C33: a review mutation whose response is not 2xx ends in the step of
\* its handler in which the error is written: its transaction has not
\* committed, it has called neither InvalidateProductCache nor Publish nor
\* store.Set, and the step leaves the store (pages, ratings and records),
\* the events and the rows of the reviews table as they were. So do all
\* the steps of a mutation before its commit: whatever such a request has
\* done when it is answered with an error has changed nothing.
C33_FailedMutationChangesNothing ==
    [][\A r \in Reqs :
          /\ (Ends(r) /\ ~Is2xx(ReplyOf(r)'.status)) =>
                /\ req[r].pc = "handler"
                /\ ~req'[r].committed
                /\ req'[r].published = "none"
                /\ req'[r].setRes = "none"
                /\ redis' = redis /\ events' = events /\ reviews' = reviews
          /\ (Moves(r) /\ ~req'[r].committed) =>
                redis' = redis /\ events' = events /\ reviews' = reviews
      ]_vars

\* A CreateProductReview with an Idempotency-Key was answered 500 for its
\* failed commit: the page cached before is still in the store, which holds
\* no record, and there is neither a row nor an event
C33_Witness ==
    \E r \in Reqs :
       /\ req[r].pc = "done" /\ req[r].op = "CreateProductReview"
       /\ req[r].token # <<>>
       /\ ReplyOf(r).status = StatusInternalServerError
       /\ inject = "db"
       /\ DOMAIN redis = {FirstPage}
       /\ DOMAIN reviews = {} /\ events = <<>>

\* The request has been answered by both servers
BothAnswered == req[1].pc = "done" /\ req[2].pc = "done" /\ req[1].op # ""

\* C34: for every request of every sequence, the handlers with a cache
\* that has kept nothing and of which a call may fail, and with a publisher
\* that may fail, give the status, the headers and the body that the
\* handlers built with a nil cache and a nil publisher give on the same
\* database, and leave the same rows, the same id sequence and the same
\* products: the next request finds the two servers on the same database
\* again.
C34_NilCacheEquivalent ==
    BothAnswered =>
       /\ ReplyOf(1).status = ReplyOf(2).status
       /\ ReplyOf(1).headers = ReplyOf(2).headers
       /\ ReplyOf(1).body = ReplyOf(2).body
       /\ reviews = svc.bare.reviews
       /\ nextID = svc.bare.nextID
       /\ products = svc.bare.products

\* Both servers have answered a GetProductReviews with the two reviews of
\* the product, one cache call of the request having failed, after a
\* sequence of requests that created them
C34_Witness ==
    /\ BothAnswered
    /\ req[1].op = "GetProductReviews"
    /\ inject = "cache"
    /\ ReplyOf(2).status = StatusOK
    /\ Len(ReplyOf(2).body[1]) = 2
    /\ ReplyOf(1).body = ReplyOf(2).body

\* Request r was answered with the record that request req[r].hitBy stored
Replayed(r) == req[r].pc = "done" /\ req[r].lookup = "hit"

\* C35 as stated: a request answered from a record has the status, every
\* value of every header and the body that the client of the request that
\* stored the record received.
C35_Original ==
    \A r \in Reqs :
       Replayed(r) =>
          /\ ReplyOf(r).status = ReplyOf(req[r].hitBy).status
          /\ ReplyOf(r).body = ReplyOf(req[r].hitBy).body
          /\ ReplyOf(r).headers = ReplyOf(req[r].hitBy).headers

\* C36 as stated: when the handler has returned, the status code the
\* recorder holds is the status code that was sent to the client.
C36_Original ==
    \A r \in Reqs :
       (req[r].pc \in {"writeback", "done"} /\ req[r].wr.recording) =>
          req[r].wr.statusCode = req[r].wr.w.status

\* Request r calls Cache.GetReviews, the call succeeds, and the entry under
\* its key is there as the SetReviews of an earlier request left it
ReadsStoredPage(r) ==
    /\ req[r].pc = "handler"
    /\ req[r].op = "GetProductReviews"
    /\ req'[r].pc # "handler"
    /\ ~parseID(req[r].pid).err
    /\ inject' = inject
    /\ RedisHas(redis, PageKey(req[r]))
    /\ redis[PageKey(req[r])].by \in Reqs
    /\ redis[PageKey(req[r])].val = MarshalReviews(req[redis[PageKey(req[r])].by].list)

\* C37 as stated: a GetReviews after a SetReviews of the same product,
\* limit and offset, the entry neither invalidated nor expired, is a hit
\* with the items that were set, whatever the list was, and
\* GetProductReviews answers it from the cache without a query.
C37_Original ==
    [][\A r \in Reqs :
          ReadsStoredPage(r) =>
             /\ req'[r].pc = "done"
             /\ req'[r].wr.w.status = StatusOK
             /\ req'[r].wr.w.body =
                   <<ReviewsResponse(req[redis[PageKey(req[r])].by].list)>>]_vars

(***************************************************************************)
(* The cache service on the store it shares with the idempotency           *)
(* middleware: pages and ratings of products 1 and 12 and the records of   *)
(* two keys, one of them chosen by its client to read like a cache key     *)
(***************************************************************************)
FrameTokens == {<<"k">>, reviewsKey(1, 10, 0)}

FrameRecord ==
    toCachedResponse(WriteHeader(newResponseRecorder(NewResponseWriter),
                                 StatusCreated))

FrameStore ==
    LET list == CHOOSE l \in CacheLists : TRUE
        s1 == SetReviews(EmptyMap, 1, 10, 0, list, FALSE, 0)
        s2 == SetReviews(s1, 1, 1, 10, list, FALSE, 0)
        s3 == SetReviews(s2, 12, 10, 0, list, FALSE, 0)
        s4 == SetRating(s3, 1, Ptr(4), FALSE, 0)
        s5 == SetRating(s4, 12, NilPtr, FALSE, 0)
        s6 == StoreSet(s5, <<"k">>, FrameRecord, idempotencyTTL, FALSE, 0)
    IN  StoreSet(s6, reviewsKey(1, 10, 0), FrameRecord, idempotencyTTL,
                 FALSE, 0)

InitFrame ==
    /\ svc = SvcIdle
    /\ redis = FrameStore
    /\ reviews = [i \in {} |-> 0]
    /\ nextID = 1
    /\ products = Products
    /\ events = <<>>
    /\ req = [r \in Reqs |-> IdleReq]
    /\ inject = "none"

SpecFrame == InitFrame /\ [][NextLoop]_vars

\* The keys SetReviews and SetRating write for product P
OwnKeys(P) ==
    {reviewsKey(P, page.limit, page.offset) : page \in CachePages}
    \cup {ratingKey(P)}

\* C38: no step of InvalidateProductCache(P), its SCAN calls, its DEL calls
\* and its InvalidateRating, failed or not, adds an entry or changes or
\* removes an entry other than the pages and the rating of P: the pages and
\* the rating of product 12 stay when P is 1 (and those of 1 when P is 12),
\* and so does every idempotency record, whatever its key.
C38_InvalidationTouchesOnlyItsProduct ==
    [][svc.pc \in {"scan", "del", "rating"} =>
          /\ DOMAIN redis' \subseteq DOMAIN redis
          /\ \A k \in DOMAIN redis \ OwnKeys(svc.productID) :
                k \in DOMAIN redis' /\ redis'[k] = redis[k]]_vars

\* InvalidateProductCache(1) has returned on the full store: the entries of
\* product 1 are gone, those of product 12 and both records are there
C38_Witness ==
    /\ svc.pc = "returned"
    /\ svc.op = "InvalidateProductCache"
    /\ svc.productID = 1
    /\ DOMAIN redis = (OwnKeys(12) \cap DOMAIN FrameStore)
                         \cup {IdemKey(t) : t \in FrameTokens}
    /\ \A k \in DOMAIN redis : redis[k] = FrameStore[k]

\* The queries of the review-list cache, and keys a client may send
KeyTriples ==
    {[productID |-> p, limit |-> l, offset |-> o] :
        p \in KeyProducts, l \in KeyLimits, o \in KeyOffsets}

KeyTokens ==
    {<<"k">>, <<>>, ratingKey(1)}
    \cup {reviewsKey(t.productID, t.limit, t.offset) : t \in KeyTriples}

\* SetReviews returns without error
SetsReviews == svc'.op = "SetReviews" /\ ~svc'.failed /\ redis' # redis

\* C39: two queries (productID, limit, offset) that differ have different
\* review-list keys, two products have different rating keys, and no
\* review-list key is a rating key or the key of an idempotency record,
\* whatever key the client sent; so a SetReviews for one query leaves what
\* GetReviews returns for every other query, what GetRating returns for
\* every product and what RedisStore.Get returns for every key as it was.
C39_KeysInjectiveNamespacesDisjoint ==
    /\ [](/\ \A t, u \in KeyTriples :
               reviewsKey(t.productID, t.limit, t.offset)
                  = reviewsKey(u.productID, u.limit, u.offset) => t = u
          /\ \A p, q \in KeyProducts : ratingKey(p) = ratingKey(q) => p = q
          /\ \A t \in KeyTriples :
               /\ \A p \in KeyProducts :
                     reviewsKey(t.productID, t.limit, t.offset) # ratingKey(p)
               /\ \A token \in KeyTokens :
                     reviewsKey(t.productID, t.limit, t.offset)
                        # IdemKey(token)
          /\ \A p \in KeyProducts, token \in KeyTokens :
               ratingKey(p) # IdemKey(token))
    /\ [][SetsReviews =>
            /\ \A t \in KeyTriples :
                  t # [productID |-> svc'.productID,
                       limit |-> svc'.page.limit,
                       offset |-> svc'.page.offset] =>
                     GetReviews(redis', t.productID, t.limit, t.offset, FALSE)
                        = GetReviews(redis, t.productID, t.limit, t.offset,
                                     FALSE)
            /\ \A p \in KeyProducts :
                  GetRating(redis', p, FALSE) = GetRating(redis, p, FALSE)
            /\ \A token \in KeyTokens :
                  StoreGet(redis', token, FALSE)
                     = StoreGet(redis, token, FALSE)]_vars

\* SetReviews(11, 1, 0, list) has returned while the store holds the page
\* (1, 11, 0) with the other list, and GetReviews(1, 11, 0) returns that
\* other list
C39_Witness ==
    /\ svc.op = "SetReviews" /\ ~svc.failed
    /\ svc.productID = 11 /\ svc.page = [limit |-> 1, offset |-> 0]
    /\ DOMAIN redis = {reviewsKey(11, 1, 0), reviewsKey(1, 11, 0)}
    /\ GetReviews(redis, 1, 11, 0, FALSE).reviews # svc.list
    /\ ~GetReviews(redis, 1, 11, 0, FALSE).reviews.isNil

====
